---- MODULE Spec2Model ----
(***************************************************************************)
(* Model of MeeShip's image optimisation and shipping-cost pipeline        *)
(* (backend/app/services/image_optimizer.py), of the shipping variant      *)
(* generator (backend/app/services/shipping_variant_generator.py), of the  *)
(* size-targeting JPEG encoders (backend/app/routers/images.py), and of    *)
(* the payment and credits handling (backend/app/routers/payment.py,       *)
(* backend/app/services/razorpay_service.py), of the OAuth state store     *)
(* (backend/app/routers/kinde_auth.py), of the platform session refresh    *)
(* and the Playwright sessions (platform_credential_service.py,            *)
(* meesho_playwright.py), and of the optimize-stream response              *)
(* (backend/app/routers/images.py).                                        *)
(*                                                                         *)
(* Images are abstracted to what the pipeline's control flow and metrics   *)
(* depend on: pixel width and height, and the fraction of pixels whose     *)
(* luma exceeds 240, kept in units of 1/BrightDen of the pixel count.      *)
(* A file (bytes) is its length in bytes together with the image it        *)
(* decodes to.  Weights are fixed-point, in 1/100 gram.                    *)
(***************************************************************************)
EXTENDS Integers, Sequences, FiniteSets

\* ------------------------------------------------------------------------
\* Python's None / a present value
None == <<>>
Some(v) == <<v>>
IsSome(o) == o # <<>>
Val(o) == o[1]

Max(a, b) == IF a >= b THEN a ELSE b
Min(a, b) == IF a <= b THEN a ELSE b

\* ------------------------------------------------------------------------
\* Program constants
CanvasPx == 1200
GateKB == 200
CeilingKB == 180
WhiteRatioNum == 6
WhiteRatioDen == 10
QualityMax == 95
QualityMin == 20
FallbackQuality == 80

\* Resolution of the bright-pixel fraction
BrightDen == 10

\* g gram as a fixed-point weight (1/100 gram)
Gram(g) == g * 100

\* Bounds of the model
MaxPass == 2

\* ------------------------------------------------------------------------
\* Shipping-cost estimator (image_optimizer.py, _predict_cost)

\* volumetric_weight = (W * H * D) / 5000 with W = width * 20/1200 cm,
\* H = height * 20/1200 cm, D = 2 cm: width*height/9000000 gram, that is
\* width*height/90000 in 1/100 gram.  Pixel sizes are multiples of 300, for
\* which (width/300)*(height/300) is that value exactly.
volumetric_weight(width, height) == (width \div 300) * (height \div 300)

\* Python's "actual_weight_g or volumetric_weight": None and 0 are falsy
actual_or_volumetric(actual_weight_g, vol) ==
    IF IsSome(actual_weight_g) /\ Val(actual_weight_g) # 0
    THEN Val(actual_weight_g) ELSE vol

billable_weight_bug(actual_weight_g, vol) == actual_or_volumetric(actual_weight_g, vol)

billable_weight(actual_weight_g, vol) ==
    Max(actual_or_volumetric(actual_weight_g, vol), vol)

shipping_tier_bug(billable) ==
    IF billable < Gram(500) THEN 45
    ELSE IF billable < Gram(1000) THEN 65
    ELSE IF billable < Gram(2000) THEN 85
    ELSE 110

shipping_tier(billable) ==
    IF billable <= Gram(500) THEN 45
    ELSE IF billable <= Gram(1000) THEN 65
    ELSE IF billable <= Gram(2000) THEN 85
    ELSE 110

predict_cost(width, height, actual_weight_g) ==
    LET vol == volumetric_weight(width, height)
        billable == billable_weight(actual_weight_g, vol)
    IN [actual_weight_g |-> actual_or_volumetric(actual_weight_g, vol),
        volumetric_weight_g |-> vol,
        billable_weight_g |-> billable,
        shipping_cost_inr |-> shipping_tier(billable)]

\* ------------------------------------------------------------------------
\* State

VARIABLES
    pc,              \* position inside optimize_image, or "returned"/"raised"
    pass,            \* 1 for the first call, 2 when the output was fed back
    image_bytes,     \* the input file of the current call
    actual_weight_g, \* optional weight argument
    image,           \* the working image (image_cv, image_cropped, ...)
    product_mask,    \* None or the mask of the segmenter
    primary,         \* what detect_product_ml returned: refined/probable/none
    stages,          \* pipeline stages the current call has executed
    metrics,         \* the metrics dict of the current call
    result,          \* None, or the bytes the call returned
    exc,             \* None, or the exception the call raised
    raised_in,       \* stage whose exception reached the top-level handler
    encoder,         \* None, or the canvas content and path of the encoder
    cost_in,         \* _predict_cost driver: the arguments
    cost_out,        \* _predict_cost driver: the last two results
    grid,            \* variant generator: layout of the grid image
    tile_idx,        \* variant generator: tile being processed
    variant_idx,     \* variant generator: position in the tile's variants
    attempted,       \* variant generator: VariantInfo of every attempt
    emitted,         \* variant generator: VariantInfo of every yielded variant
    gen_pc           \* variant generator: running / done / aborted

VARIABLES
    enc_in,          \* JPEG encoders: the arguments and the sizes Pillow gives
    enc_out,         \* JPEG encoders: None, or the function and what it returned
    px_in,           \* pixel steps: the canvas and the mask handed in
    px_image,        \* pixel steps: the current canvas
    px_pc,           \* pixel steps: white_bg / sharpen / compress
    px_failed,       \* pixel steps: the steps whose library call raised
    order_status,    \* database: orders.status of the order (committed)
    order_payment_id,\* database: orders.razorpay_payment_id (committed)
    user_credits,    \* database: users.credits of the owner (committed)
    credits_held,    \* users.credits of the owner before the first request
    webhook_logs,    \* database: event_id of every committed webhook_logs row
    order_lock,      \* database: request holding the order's row lock, or 0
    user_lock,       \* database: request holding the user's row lock, or 0
    req              \* the HTTP requests in flight, each with its own session

VARIABLES
    seg_in,          \* segmentation: what the library calls of one run do
    seg_out,         \* segmentation: None, or what each strategy returned
    crop_in,         \* crop_to_product: image size, mask and largest region
    crop_out,        \* crop_to_product: None, or the slice that was returned
    crop_canvas,     \* None, or the source frames of canvas image and mask
    stk_chosen,      \* sticker overlay: None, or the sampled badge configs
    stk_placed,      \* sticker overlay: the badges pasted so far
    oauth_states,    \* kinde_auth._oauth_states: pairs <<state, issue time>>
    oauth_now,       \* datetime.utcnow(), in minutes
    oauth_issued,    \* every pair <<state, issue time>> /login has handed out
    oauth_used,      \* the states a callback has accepted
    oauth_last,      \* None, or the last callback: its state and its answer
    rf_lock,         \* platform_credential_service._refresh_lock: holder or 0
    rf_valid,        \* the stored platform session is alive at Meesho
    rf_sessions,     \* MeeshoPlaywrightService._sessions: status per session
    rf_call,         \* the ensure_valid_session calls in flight
    pw_sessions,     \* MeeshoPlaywrightService._sessions with task and process
    sse_pc,          \* optimize-stream: position of event_generator
    sse_minio,       \* optimize-stream: minio_enabled
    sse_idx,         \* optimize-stream: variants the generator went through
    sse_counts,      \* optimize-stream: successful_variants, failed_variants
    sse_seen,        \* optimize-stream: disconnect seen, save failed, encoded
    sse_obs,         \* optimize-stream: what the client has been sent so far
    sse_complete,    \* optimize-stream: None, or the complete event's counts
    sse_record       \* optimize-stream: None, or the persisted ProcessedImage

pipe_vars == <<pc, pass, image_bytes, actual_weight_g, image, product_mask,
               primary, stages, metrics, result, exc, raised_in, encoder>>
cost_vars == <<cost_in, cost_out>>
gen_vars == <<grid, tile_idx, variant_idx, attempted, emitted, gen_pc>>
enc_vars == <<enc_in, enc_out>>
px_vars == <<px_in, px_image, px_pc, px_failed>>
db_vars == <<order_status, order_payment_id, user_credits, credits_held,
             webhook_logs, order_lock, user_lock, req>>
seg_vars == <<seg_in, seg_out>>
crop_vars == <<crop_in, crop_out, crop_canvas>>
stk_vars == <<stk_chosen, stk_placed>>
oauth_vars == <<oauth_states, oauth_now, oauth_issued, oauth_used, oauth_last>>
rf_vars == <<rf_lock, rf_valid, rf_sessions, rf_call>>
pw_vars == <<pw_sessions>>
sse_vars == <<sse_pc, sse_minio, sse_idx, sse_counts, sse_seen, sse_obs,
              sse_complete, sse_record>>
ext_vars == <<seg_vars, crop_vars, stk_vars, oauth_vars, rf_vars, pw_vars, sse_vars>>
rest_vars == <<enc_vars, px_vars, db_vars, ext_vars>>
vars == <<pipe_vars, cost_vars, gen_vars, rest_vars>>

\* ------------------------------------------------------------------------
\* Files and images

KB(n) == n * 1024

\* quality: the JPEG quality the pipeline encoded the file with (0: not ours)
File(len, decodable, w, h, bright) ==
    [len |-> len, decodable |-> decodable, w |-> w, h |-> h, bright |-> bright,
     quality |-> 0]

\* cv2.imdecode: None for malformed bytes, else the decoded image
imdecode(bytes) ==
    IF bytes.decodable
    THEN Some([w |-> bytes.w, h |-> bytes.h, bright |-> bytes.bright,
               cropped |-> FALSE, whitened |-> FALSE, sharpened |-> "no"])
    ELSE None

\* np.sum(gray > 240) for an image whose bright fraction is bright/BrightDen
bright_count(img) == (img.w * img.h * img.bright) \div BrightDen

\* the white-ratio test of the gate: np.sum(gray > 240) / gray.size > 0.6
white_ratio_passes(img) ==
    bright_count(img) * WhiteRatioDen > (img.w * img.h) * WhiteRatioNum

is_already_optimized(img, bytes) ==
    /\ bytes.len < KB(GateKB)
    /\ img.h = CanvasPx
    /\ img.w = CanvasPx
    /\ white_ratio_passes(img)

NewMetrics(bytes) ==
    [input_size_bytes |-> bytes.len,
     output_size_bytes |-> None,
     input_dimensions |-> None,
     output_dimensions |-> <<CanvasPx, CanvasPx>>,
     processing_time_set |-> FALSE,
     size_reduction_percent |-> None,
     cost_fields |-> None,
     optimization_skipped |-> None,
     product_detected |-> None,
     error |-> None]

\* ------------------------------------------------------------------------
\* Segmentation (detect_product_ml, simple_crop)

\* A mask: which strategy built it, the fraction of its pixels that are
\* foreground (cover/BrightDen), whether any pixel is foreground, its size,
\* and the pixel values it holds. np.where(..., 255, 0), cv2.inRange with
\* cv2.dilate, and the assignment of 255 into np.zeros write 0 and 255 only.
Mask(kind, cover, nonempty, w, h) ==
    [kind |-> kind, cover |-> cover, nonempty |-> nonempty, w |-> w, h |-> h,
     levels |-> (IF nonempty THEN {255} ELSE {}) \cup
                (IF cover < BrightDen THEN {0} ELSE {})]

\* Outcomes of the library calls that the code cannot control:
\*   grabcut_raises  cv2.grabCut (or anything before KMeans) raises
\*   fg              number of pixels GrabCut tags (probable) foreground
\*   kmeans_raises   KMeans or create_color_mask raises
\*   cover           foreground fraction of the mask that is built
\* The result is the returned mask, and whether an exception left the
\* function: its outer "except Exception" returns None instead.
detect_product_ml_raising(img, grabcut_raises, fg, kmeans_raises, cover) ==
    IF grabcut_raises THEN [raised |-> TRUE, mask |-> None]
    ELSE [raised |-> FALSE, mask |-> Some(Mask("refined", cover, cover > 0, img.w, img.h))]

\* a segmenter that clusters whenever any pixel is tagged foreground
detect_product_ml_clustering_any(img, grabcut_raises, fg, kmeans_raises, cover) ==
    LET probable_fg == Mask("probable", 0, fg > 0, img.w, img.h)
    IN  IF grabcut_raises THEN [raised |-> FALSE, mask |-> None]
        ELSE IF fg > 0
             THEN IF ~kmeans_raises
                  THEN [raised |-> FALSE,
                        mask |-> Some(Mask("refined", cover, cover > 0, img.w, img.h))]
                  ELSE [raised |-> FALSE, mask |-> Some(probable_fg)]
             ELSE [raised |-> FALSE, mask |-> None]

detect_product_ml_result(img, grabcut_raises, fg, kmeans_raises, cover) ==
    LET probable_fg == Mask("probable", IF fg > 100 THEN cover ELSE 0, fg > 0, img.w, img.h)
        unrefined == IF fg > 0 THEN Some(probable_fg) ELSE None
    IN  IF grabcut_raises THEN [raised |-> FALSE, mask |-> None]
        ELSE IF fg > 100
             THEN IF ~kmeans_raises
                  THEN [raised |-> FALSE,
                        mask |-> Some(Mask("refined", cover, cover > 0, img.w, img.h))]
                  ELSE [raised |-> FALSE, mask |-> unrefined]
             ELSE [raised |-> FALSE, mask |-> unrefined]

\*   canny_raises    the edge detection raises
\*   contours        some contour was found
simple_crop_result(img, canny_raises, contours, cover) ==
    IF canny_raises THEN None
    ELSE IF contours THEN Some(Mask("bbox", cover, TRUE, img.w, img.h))
    ELSE None

FgCounts == {0, 100, 101}
Covers == {0, 4, BrightDen}
BoxCovers == {4}

\* ------------------------------------------------------------------------
\* Crop / recompose / sharpen

\* crop_to_product: the image itself without mask, without contour or on an
\* exception; else the bounding box plus margin, here 1/f of each side
crop_to_product(img, mask, crop_raises, f) ==
    IF ~IsSome(mask) THEN img
    ELSE IF crop_raises THEN img
    ELSE IF Val(mask).nonempty
         THEN LET cropped == [img EXCEPT !.w = Max(1, img.w \div f),
                                         !.h = Max(1, img.h \div f),
                                         !.cropped = (f > 1)]
              IN  IF cropped.w * cropped.h > 0 THEN cropped ELSE img
         ELSE img

CropFactors == {1, 2}

resize_keep(img, w, h) == img

\* cv2.resize(image, (w, h))
resize(img, w, h) == [img EXCEPT !.w = w, !.h = h]

\* an interpolating resize of a mask: between a 0 and a 255 pixel it writes
\* values that are neither
resize_interpolating(mask, w, h) ==
    [mask EXCEPT !.w = w, !.h = h,
                 !.levels = IF {0, 255} \subseteq @ THEN @ \cup {128} ELSE @]

\* cv2.resize(product_mask, (w, h), interpolation=cv2.INTER_NEAREST): every
\* output pixel is a copy of one input pixel
resize_nearest(mask, w, h) == [mask EXCEPT !.w = w, !.h = h]

\* apply_white_bg_product_only: background pixels (mask = 0) become 255;
\* product_bright of the cover product pixels are brighter than 240
apply_white_bg_product_only(img, mask, raises, product_bright) ==
    IF ~IsSome(mask) THEN img
    ELSE IF raises THEN img
    ELSE [img EXCEPT !.bright = (BrightDen - Val(mask).cover) + product_bright,
                     !.whitened = TRUE]

\* selective_sharpen: the whole canvas without mask, else the product only
selective_sharpen(img, mask, raises) ==
    IF raises THEN [img EXCEPT !.sharpened = "failed"]
    ELSE IF ~IsSome(mask) THEN [img EXCEPT !.sharpened = "whole"]
    ELSE [img EXCEPT !.sharpened = "product"]

\* ------------------------------------------------------------------------
\* Size-targeting encoder of the main pipeline (aggressive_compress)

\* Size in bytes of the JPEG encoding of a canvas at quality q.  A content
\* is a size profile: base bytes at QualityMin, slope bytes per quality
\* step, and optionally one quality (dip_at) that encodes dip bytes smaller.
jpeg_size(content, q) ==
    content.base + content.slope * (q - QualityMin)
      - (IF q = content.dip_at THEN content.dip ELSE 0)

Content(base, slope, dip_at, dip) ==
    [base |-> base, slope |-> slope, dip_at |-> dip_at, dip |-> dip]

\* fits at once; fits exactly at a middle quality; only one middle quality
\* fits; fits only at QualityMin; never fits (by one byte, by far)
Contents ==
    {Content(KB(100), 0, 0, 0),
     Content(KB(100), 2048, 0, 0),
     Content(KB(CeilingKB) + 1, 0, 50, KB(80)),
     Content(KB(CeilingKB), 2048, 0, 0),
     Content(KB(CeilingKB) + 1, 0, 0, 0),
     Content(KB(250), 0, 0, 0)}

\* for quality in range(95, 19, -1): return the first encoding <= 180 KB;
\* after the loop the last encoding (quality 20) is returned
RECURSIVE compress_scan_strict(_, _)
compress_scan_strict(content, q) ==
    IF jpeg_size(content, q) < KB(CeilingKB) THEN q
    ELSE IF q = QualityMin THEN q
    ELSE compress_scan_strict(content, q - 1)

RECURSIVE compress_scan(_, _)
compress_scan(content, q) ==
    IF jpeg_size(content, q) <= KB(CeilingKB) THEN q
    ELSE IF q = QualityMin THEN q
    ELSE compress_scan(content, q - 1)

\* aggressive_compress: None only when PIL and then cv2.imencode fail.
\* The file decodes to an image of the canvas's size and, at the
\* resolution 1/BrightDen, of its bright fraction.
aggressive_compress(img, content, pil_raises, cv_ok) ==
    IF ~pil_raises
    THEN LET q == compress_scan(content, QualityMax)
         IN  Some([File(jpeg_size(content, q), TRUE, img.w, img.h, img.bright)
                     EXCEPT !.quality = q])
    ELSE IF cv_ok
         THEN Some([File(jpeg_size(content, FallbackQuality), TRUE, img.w, img.h,
                         img.bright) EXCEPT !.quality = FallbackQuality])
         ELSE None

\* ------------------------------------------------------------------------
\* optimize_image

\* the except block: the error and the elapsed time are written to the local
\* metrics dict, then a new Exception is raised that holds the message only
Handler(msg, stage) ==
    /\ metrics' = [metrics EXCEPT !.error = Some(msg), !.processing_time_set = TRUE]
    /\ exc' = Some([message |-> <<"Image optimization failed", msg>>, metrics |-> None])
    /\ raised_in' = stage
    /\ pc' = "raised"

\* lines 62-68: decode, or fail with "Failed to decode image"
Decode ==
    /\ pc = "start"
    /\ stages' = stages \cup {"decode"}
    /\ LET image_cv == imdecode(image_bytes)
       IN  IF ~IsSome(image_cv)
           THEN /\ Handler("Failed to decode image", "decode")
                /\ UNCHANGED image
           ELSE /\ image' = image_cv
                /\ metrics' = [metrics EXCEPT
                       !.input_dimensions = Some(<<Val(image_cv).w, Val(image_cv).h>>)]
                /\ pc' = "gate"
                /\ UNCHANGED <<exc, raised_in>>
    /\ UNCHANGED <<pass, image_bytes, actual_weight_g, product_mask, primary, result,
                   encoder>>
    /\ UNCHANGED <<cost_vars, gen_vars, rest_vars>>

GateFallThrough ==
    /\ stages' = stages \cup {"gate"}
    /\ pc' = "segment"
    /\ UNCHANGED <<metrics, result>>

GateSkip_no_cost ==
    /\ stages' = stages \cup {"gate"}
    /\ metrics' = [metrics EXCEPT
           !.optimization_skipped = Some(TRUE),
           !.output_size_bytes = Some(image_bytes.len),
           !.size_reduction_percent = Some([num |-> 0, den |-> 1]),
           !.processing_time_set = TRUE]
    /\ result' = Some(image_bytes)
    /\ pc' = "returned"

\* lines 72-78: the short-circuit
GateSkip ==
    /\ stages' = stages \cup {"gate", "predict_cost"}
    /\ metrics' = [metrics EXCEPT
           !.optimization_skipped = Some(TRUE),
           !.output_size_bytes = Some(image_bytes.len),
           !.size_reduction_percent = Some([num |-> 0, den |-> 1]),
           !.cost_fields = Some(predict_cost(Val(image).w, Val(image).h, actual_weight_g)),
           !.processing_time_set = TRUE]
    /\ result' = Some(image_bytes)
    /\ pc' = "returned"

\* lines 70-78
Gate ==
    /\ pc = "gate"
    /\ IF is_already_optimized(Val(image), image_bytes) THEN GateSkip ELSE GateFallThrough
    /\ UNCHANGED <<pass, image_bytes, actual_weight_g, image, product_mask, primary,
                   exc, raised_in, encoder>>
    /\ UNCHANGED <<cost_vars, gen_vars, rest_vars>>

\* lines 80-90: primary strategy, then the edge-detection fallback
Segment ==
    /\ pc = "segment"
    /\ \E grabcut_raises \in BOOLEAN, fg \in FgCounts, kmeans_raises \in BOOLEAN,
          cover \in Covers, canny_raises \in BOOLEAN, contours \in BOOLEAN,
          box_cover \in BoxCovers :
         LET ml == detect_product_ml_result(Val(image), grabcut_raises, fg,
                                            kmeans_raises, cover)
         IN  IF ml.raised
             THEN /\ Handler("ML product detection failed", "segment")
                  /\ stages' = stages \cup {"detect_product_ml"}
                  /\ UNCHANGED <<product_mask, primary>>
             ELSE /\ primary' = IF IsSome(ml.mask) THEN Val(ml.mask).kind ELSE "none"
                  /\ IF ~IsSome(ml.mask)
                     THEN /\ product_mask' = simple_crop_result(Val(image), canny_raises,
                                                                contours, box_cover)
                          /\ stages' = stages \cup {"detect_product_ml", "simple_crop"}
                          /\ metrics' = [metrics EXCEPT !.product_detected =
                                 Some(IsSome(simple_crop_result(Val(image), canny_raises,
                                                                contours, box_cover)))]
                     ELSE /\ product_mask' = ml.mask
                          /\ stages' = stages \cup {"detect_product_ml"}
                          /\ metrics' = [metrics EXCEPT !.product_detected = Some(TRUE)]
                  /\ pc' = "crop"
                  /\ UNCHANGED <<exc, raised_in>>
    /\ UNCHANGED <<pass, image_bytes, actual_weight_g, image, result, encoder>>
    /\ UNCHANGED <<cost_vars, gen_vars, rest_vars>>

\* lines 92-96
Crop ==
    /\ pc = "crop"
    /\ \E crop_raises \in BOOLEAN, f \in CropFactors :
         LET image_cropped == crop_to_product(Val(image), product_mask, crop_raises, f)
         IN  image' = IF image_cropped.w * image_cropped.h = 0
                      THEN image ELSE Some(image_cropped)
    /\ stages' = stages \cup {"crop_to_product"}
    /\ pc' = "resize"
    /\ UNCHANGED <<pass, image_bytes, actual_weight_g, product_mask, primary, metrics,
                   result, exc, raised_in, encoder>>
    /\ UNCHANGED <<cost_vars, gen_vars, rest_vars>>

\* lines 98-105: image and mask to the canvas. The two cv2.resize calls stand
\* directly in the body of optimize_image's try: when one raises, control
\* goes to the except block at lines 130-134
\*   image_raises   cv2.resize of the image raises
\*   mask_raises    cv2.resize of the mask raises
Resize ==
    /\ pc = "resize"
    /\ stages' = stages \cup {"resize"}
    /\ \E image_raises \in BOOLEAN, mask_raises \in BOOLEAN :
         IF image_raises \/ (IsSome(product_mask) /\ mask_raises)
         THEN /\ Handler("cv2.resize failed", "resize")
              /\ UNCHANGED <<image, product_mask>>
         ELSE /\ image' = Some(resize(Val(image), CanvasPx, CanvasPx))
              /\ product_mask' =
                    IF IsSome(product_mask)
                    THEN Some(resize_nearest(Val(product_mask), CanvasPx, CanvasPx))
                    ELSE None
              /\ pc' = "white_bg"
              /\ UNCHANGED <<metrics, exc, raised_in>>
    /\ UNCHANGED <<pass, image_bytes, actual_weight_g, primary, result, encoder>>
    /\ UNCHANGED <<cost_vars, gen_vars, rest_vars>>

\* lines 107-109
WhiteBg ==
    /\ pc = "white_bg"
    /\ \E raises \in BOOLEAN, all_bright \in BOOLEAN :
         LET product_bright == IF IsSome(product_mask) /\ all_bright
                               THEN Val(product_mask).cover ELSE 0
         IN  image' = Some(apply_white_bg_product_only(Val(image), product_mask, raises,
                                                       product_bright))
    /\ stages' = stages \cup {"white_bg"}
    /\ pc' = "sharpen"
    /\ UNCHANGED <<pass, image_bytes, actual_weight_g, product_mask, primary, metrics,
                   result, exc, raised_in, encoder>>
    /\ UNCHANGED <<cost_vars, gen_vars, rest_vars>>

\* lines 111-113
Sharpen ==
    /\ pc = "sharpen"
    /\ \E raises \in BOOLEAN :
         image' = Some(selective_sharpen(Val(image), product_mask, raises))
    /\ stages' = stages \cup {"sharpen"}
    /\ pc' = "compress"
    /\ UNCHANGED <<pass, image_bytes, actual_weight_g, product_mask, primary, metrics,
                   result, exc, raised_in, encoder>>
    /\ UNCHANGED <<cost_vars, gen_vars, rest_vars>>

\* (len(image_bytes) - len(optimized_bytes)) / len(image_bytes) * 100
size_reduction_percent(in_len, out_len) ==
    [num |-> (in_len - out_len) * 100, den |-> in_len]

\* lines 115-128: encode, fill the metrics, return; len(None) raises when
\* aggressive_compress returned None
Compress ==
    /\ pc = "compress"
    /\ \E content \in Contents, pil_raises \in BOOLEAN, cv_ok \in BOOLEAN :
         LET optimized_bytes == aggressive_compress(Val(image), content, pil_raises,
                                                    cv_ok)
         IN  /\ encoder' = Some([content |-> content,
                                 path |-> IF ~pil_raises THEN "pil"
                                          ELSE IF cv_ok THEN "cv2" ELSE "failed"])
             /\ IF ~IsSome(optimized_bytes)
                THEN /\ Handler("object of type 'NoneType' has no len()", "compress")
                     /\ stages' = stages \cup {"compress"}
                     /\ UNCHANGED result
                ELSE /\ metrics' = [metrics EXCEPT
                            !.output_size_bytes = Some(Val(optimized_bytes).len),
                            !.size_reduction_percent =
                                Some(size_reduction_percent(image_bytes.len,
                                                            Val(optimized_bytes).len)),
                            !.cost_fields = Some(predict_cost(CanvasPx, CanvasPx,
                                                              actual_weight_g)),
                            !.processing_time_set = TRUE]
                     /\ stages' = stages \cup {"compress", "predict_cost"}
                     /\ result' = optimized_bytes
                     /\ pc' = "returned"
                     /\ UNCHANGED <<exc, raised_in>>
    /\ UNCHANGED <<pass, image_bytes, actual_weight_g, image, product_mask, primary>>
    /\ UNCHANGED <<cost_vars, gen_vars, rest_vars>>

\* the caller feeds the returned bytes back into optimize_image
Resubmit ==
    /\ pc = "returned"
    /\ pass < MaxPass
    /\ pass' = pass + 1
    /\ image_bytes' = Val(result)
    /\ image' = None
    /\ product_mask' = None
    /\ primary' = "unset"
    /\ stages' = {}
    /\ metrics' = NewMetrics(Val(result))
    /\ result' = None
    /\ exc' = None
    /\ raised_in' = "none"
    /\ encoder' = None
    /\ pc' = "start"
    /\ UNCHANGED actual_weight_g
    /\ UNCHANGED <<cost_vars, gen_vars, rest_vars>>

\* ------------------------------------------------------------------------
\* Inputs

\* Scenario 1 and 4 sized inputs, a small large-canvas file, the canonical
\* canvas on both sides of the byte ceiling and of the white-ratio
\* threshold, and bytes that do not decode
InputFiles ==
    {File(KB(2560), TRUE, 3000, 2000, 0),
     File(KB(GateKB) - 1, TRUE, 3000, 2000, BrightDen),
     File(KB(GateKB) - 1, TRUE, CanvasPx, CanvasPx, WhiteRatioNum),
     File(KB(GateKB) - 1, TRUE, CanvasPx, CanvasPx, WhiteRatioNum + 1),
     File(KB(GateKB), TRUE, CanvasPx, CanvasPx, WhiteRatioNum),
     File(KB(GateKB), TRUE, CanvasPx, CanvasPx, WhiteRatioNum + 1),
     File(KB(150), FALSE, 0, 0, 0)}

InputWeights == {None, Some(Gram(1500))}

CostIdle == /\ cost_in = [width |-> 0, height |-> 0, actual |-> None]
            /\ cost_out = <<>>
GenIdle == /\ grid = "none"
           /\ tile_idx = 0
           /\ variant_idx = 0
           /\ attempted = <<>>
           /\ emitted = <<>>
           /\ gen_pc = "idle"
EncIdle == /\ enc_in = None
           /\ enc_out = None
PxIdle == /\ px_in = None
          /\ px_image = None
          /\ px_pc = "idle"
          /\ px_failed = {}
DbIdle == /\ order_status = "none"
          /\ order_payment_id = None
          /\ user_credits = 0
          /\ credits_held = 0
          /\ webhook_logs = {}
          /\ order_lock = 0
          /\ user_lock = 0
          /\ req = <<>>
SegIdle == /\ seg_in = None
           /\ seg_out = None

CropIdle == /\ crop_in = None
            /\ crop_out = None
            /\ crop_canvas = None

StkIdle == /\ stk_chosen = None
           /\ stk_placed = <<>>

OAuthIdle == /\ oauth_states = {}
             /\ oauth_now = 0
             /\ oauth_issued = {}
             /\ oauth_used = {}
             /\ oauth_last = None

RfIdle == /\ rf_lock = 0
          /\ rf_valid = FALSE
          /\ rf_sessions = <<>>
          /\ rf_call = <<>>

PwIdle == pw_sessions = <<>>

SseIdle == /\ sse_pc = "none"
           /\ sse_minio = FALSE
           /\ sse_idx = 0
           /\ sse_counts = <<>>
           /\ sse_seen = <<>>
           /\ sse_obs = <<>>
           /\ sse_complete = None
           /\ sse_record = None

\* every group of ext_vars but the one named is pinned
ExtIdle(s) ==
    /\ IF s = "seg" THEN TRUE ELSE SegIdle
    /\ IF s = "crop" THEN TRUE ELSE CropIdle
    /\ IF s = "stk" THEN TRUE ELSE StkIdle
    /\ IF s = "oauth" THEN TRUE ELSE OAuthIdle
    /\ IF s = "rf" THEN TRUE ELSE RfIdle
    /\ IF s = "pw" THEN TRUE ELSE PwIdle
    /\ IF s = "sse" THEN TRUE ELSE SseIdle

RestIdle == EncIdle /\ PxIdle /\ DbIdle /\ ExtIdle("none")

Init ==
    /\ pc = "start"
    /\ pass = 1
    /\ image_bytes \in InputFiles
    /\ actual_weight_g \in InputWeights
    /\ image = None
    /\ product_mask = None
    /\ primary = "unset"
    /\ stages = {}
    /\ metrics = NewMetrics(image_bytes)
    /\ result = None
    /\ exc = None
    /\ raised_in = "none"
    /\ encoder = None
    /\ CostIdle
    /\ GenIdle
    /\ RestIdle

Next ==
    \/ Decode
    \/ Gate
    \/ Segment
    \/ Crop
    \/ Resize
    \/ WhiteBg
    \/ Sharpen
    \/ Compress
    \/ Resubmit

Spec == Init /\ [][Next]_vars

\* ------------------------------------------------------------------------
\* Properties of optimize_image (specification Spec)

Skipped == metrics.optimization_skipped = Some(TRUE)

ImageStages == {"detect_product_ml", "simple_crop", "crop_to_product", "resize",
                "white_bg", "sharpen", "compress"}

\* C1: whenever optimize_image returns for an input that the gate did not
\* short-circuit, the returned bytes decode to an image of exactly the
\* canonical canvas size and metrics.output_dimensions reports that size.
CanonicalOutput ==
    (pc = "returned" /\ ~Skipped) =>
        /\ Val(result).w = CanvasPx
        /\ Val(result).h = CanvasPx
        /\ metrics.output_dimensions = <<CanvasPx, CanvasPx>>

\* a non-canonical input whose crop changed its size was returned
CanonicalOutputWitness ==
    /\ pc = "returned"
    /\ ~Skipped
    /\ image_bytes.w = 3000
    /\ Val(image).cropped
    /\ Val(result).w = CanvasPx

\* the gate holds of the call's input
GateHolds ==
    /\ "gate" \in stages
    /\ image_bytes.len < KB(GateKB)
    /\ image_bytes.w = CanvasPx
    /\ image_bytes.h = CanvasPx
    /\ bright_count(image_bytes) * WhiteRatioDen > image_bytes.w * image_bytes.h * WhiteRatioNum

\* C2 as stated: when the gate is true the input bytes are returned with
\* zero size reduction and optimization_skipped, and every downstream stage,
\* the shipping-cost estimation included, is skipped.
GateSkipsAllDownstream ==
    GateHolds =>
        /\ pc = "returned"
        /\ result = Some(image_bytes)
        /\ metrics.size_reduction_percent = Some([num |-> 0, den |-> 1])
        /\ Skipped
        /\ stages \cap (ImageStages \cup {"predict_cost"}) = {}

\* C2 amended: when the gate is true the input bytes are returned with zero
\* size reduction and optimization_skipped, segmentation, crop/recompose/
\* sharpen and encoding are skipped, and the shipping-cost estimation still
\* runs, on the input's pixel size.
GateSkipsImageStages ==
    GateHolds =>
        /\ pc = "returned"
        /\ result = Some(image_bytes)
        /\ metrics.size_reduction_percent = Some([num |-> 0, den |-> 1])
        /\ metrics.output_size_bytes = Some(image_bytes.len)
        /\ Skipped
        /\ stages \cap ImageStages = {}
        /\ "predict_cost" \in stages
        /\ metrics.cost_fields =
               Some(predict_cost(image_bytes.w, image_bytes.h, actual_weight_g))

GateSkipsWitness ==
    /\ GateHolds
    /\ pass = 1
    /\ pc = "returned"
    /\ IsSome(actual_weight_g)

\* C3 as stated: the gate returns true if and only if the bytes are shorter
\* than 200 KB, the image is 1200x1200 and the fraction of pixels with luma
\* above 240 is at least 0.60.
GateIffAtLeastSixty ==
    "gate" \in stages =>
        (Skipped <=>
            /\ image_bytes.len < KB(GateKB)
            /\ image_bytes.w = CanvasPx
            /\ image_bytes.h = CanvasPx
            /\ bright_count(image_bytes) * WhiteRatioDen
                 >= image_bytes.w * image_bytes.h * WhiteRatioNum)

\* C4 as stated: when the output of optimize_image is fed back unchanged,
\* the gate returns true on that second pass.
IdempotentGate ==
    (pass > 1 /\ "gate" \in stages) => Skipped

\* the qualities of the encoder's range whose encoding fits the ceiling
Fits(content) ==
    {q \in QualityMin..QualityMax : jpeg_size(content, q) <= KB(CeilingKB)}

\* C7: when some quality in [20,95] encodes the canvas to at most 180 KB,
\* aggressive_compress returns the encoding of the highest such quality
\* (so the output is at most 180 KB); when none does, it returns the
\* encoding of the lowest quality; in neither case does it raise.
ByteBudget ==
    (IsSome(encoder) /\ Val(encoder).path = "pil") =>
        LET c == Val(encoder).content
        IN  /\ pc = "returned"
            /\ Val(result).len = jpeg_size(c, Val(result).quality)
            /\ IF Fits(c) # {}
               THEN /\ Val(result).quality \in Fits(c)
                    /\ \A q \in Fits(c) : q <= Val(result).quality
                    /\ Val(result).len <= KB(CeilingKB)
               ELSE Val(result).quality = QualityMin

\* the search went below the top quality and stopped at a fitting one
ByteBudgetWitness ==
    /\ pc = "returned"
    /\ IsSome(encoder)
    /\ Val(encoder).path = "pil"
    /\ Val(result).quality < QualityMax
    /\ Val(result).quality > QualityMin
    /\ Val(result).len = KB(CeilingKB)

\* C8: segmentation never makes optimize_image raise; the edge-detection
\* fallback runs exactly when the primary strategy gave no mask; with no
\* mask from either, product_detected is false, nothing is cropped or
\* whitened and the sharpening is that of the whole canvas.
SegmentationNeverFatal ==
    /\ raised_in \in {"none", "decode", "resize", "compress"}
    /\ "detect_product_ml" \in stages =>
          /\ pc # "raised" \/ raised_in \in {"resize", "compress"}
          /\ "simple_crop" \in stages <=> primary = "none"
          /\ ~IsSome(product_mask) =>
                /\ primary = "none"
                /\ metrics.product_detected = Some(FALSE)
                /\ ~Val(image).cropped
                /\ ~Val(image).whitened
                /\ "sharpen" \in stages => Val(image).sharpened \in {"whole", "failed"}

SegmentationNeverFatalWitness ==
    /\ pc = "returned"
    /\ ~IsSome(product_mask)
    /\ "simple_crop" \in stages
    /\ metrics.product_detected = Some(FALSE)
    /\ Val(image).sharpened = "whole"
    /\ IsSome(result)

\* C9 as stated: a failing optimize_image raises an error that carries the
\* partially filled metrics, with the error string and the elapsed time.
FailureCarriesMetrics ==
    pc = "raised" =>
        /\ IsSome(exc)
        /\ IsSome(Val(exc).metrics)
        /\ IsSome(Val(Val(exc).metrics).error)
        /\ Val(Val(exc).metrics).processing_time_set

\* C16 as stated: an exception inside a crop / recompose / sharpen sub-step
\* (crop, resize of image or mask, background replacement, sharpening) is
\* caught in the sub-step and never reaches optimize_image's handler.
SubStepFailuresLocal ==
    raised_in \notin {"crop_to_product", "resize", "white_bg", "sharpen"}

\* C20: where a mask is applied to the image (background replacement and
\* selective sharpening) the mask has the image's width and height, both
\* the canvas size, and holds no value other than 0 and 255.
MaskMatchesImage ==
    (pc \in {"white_bg", "sharpen"} /\ IsSome(product_mask)) =>
        /\ Val(product_mask).w = Val(image).w
        /\ Val(product_mask).h = Val(image).h
        /\ Val(image).w = CanvasPx
        /\ Val(image).h = CanvasPx
        /\ Val(product_mask).levels \subseteq {0, 255}

\* a mask with both values, built on the 3000 pixel wide input, is about to
\* be applied to the canvas made from a crop of that input
MaskMatchesImageWitness ==
    /\ pc = "sharpen"
    /\ IsSome(product_mask)
    /\ image_bytes.w = 3000
    /\ Val(image).cropped
    /\ Val(image).whitened
    /\ Val(product_mask).levels = {0, 255}
    /\ Val(product_mask).w = CanvasPx

\* ------------------------------------------------------------------------
\* _predict_cost as a pure function (specification SpecCost)

PipeIdle ==
    /\ pc = "idle"
    /\ pass = 0
    /\ image_bytes = File(0, FALSE, 0, 0, 0)
    /\ actual_weight_g = None
    /\ image = None
    /\ product_mask = None
    /\ primary = "unset"
    /\ stages = {}
    /\ metrics = NewMetrics(File(0, FALSE, 0, 0, 0))
    /\ result = None
    /\ exc = None
    /\ raised_in = "none"
    /\ encoder = None

\* pixel sizes (multiples of 300) and weights on and around the tier bounds
CostWidths == {CanvasPx, 60000}
CostHeights == {CanvasPx, 45000}
CostWeights ==
    {None, Some(0), Some(1), Some(Gram(50)), Some(Gram(300)),
     Some(Gram(500)), Some(Gram(500) + 1), Some(Gram(1000)), Some(Gram(1000) + 1),
     Some(Gram(2000)), Some(Gram(2000) + 1)}

CostArgs == [width : CostWidths, height : CostHeights, actual : CostWeights]

CostCall(args) == [args |-> args,
                   out |-> predict_cost(args.width, args.height, args.actual)]

InitCost ==
    /\ PipeIdle
    /\ GenIdle
    /\ RestIdle
    /\ cost_in \in CostArgs
    /\ cost_out = <<>>

\* one call of _predict_cost; the last two calls are kept
PredictCost ==
    /\ cost_out' = <<CostCall(cost_in)>> \o SubSeq(cost_out, 1, Min(1, Len(cost_out)))
    /\ cost_in' \in CostArgs
    /\ UNCHANGED <<pipe_vars, gen_vars, rest_vars>>

NextCost == PredictCost

SpecCost == InitCost /\ [][NextCost]_vars

CostCalls == {cost_out[i] : i \in 1..Len(cost_out)}

\* C5: for every pixel size and every actual weight (None, zero, below,
\* equal to, above the volumetric weight) billable_weight_g is the maximum
\* of the actual weight, or of the volumetric weight when none is given,
\* and the volumetric weight; hence it is never below the volumetric weight.
BillableWeightFloor ==
    \A c \in CostCalls :
        LET vol == volumetric_weight(c.args.width, c.args.height)
            actual == IF IsSome(c.args.actual) THEN Val(c.args.actual) ELSE vol
        IN  /\ c.out.volumetric_weight_g = vol
            /\ c.out.billable_weight_g = (IF actual >= vol THEN actual ELSE vol)
            /\ c.out.billable_weight_g >= c.out.volumetric_weight_g

\* Scenario 3: actual 50 g, volumetric 300 g, billable 300 g, cost 45
BillableWeightFloorWitness ==
    \E c \in CostCalls :
        /\ c.args.actual = Some(Gram(50))
        /\ c.out.volumetric_weight_g = Gram(300)
        /\ c.out.billable_weight_g = Gram(300)
        /\ c.out.shipping_cost_inr = 45

\* the tiers of the claim: inclusive upper bound in gram, cost
Tiers == <<<<500, 45>>, <<1000, 65>>, <<2000, 85>>>>
TierCost(w) ==
    IF \E i \in 1..Len(Tiers) : w <= Gram(Tiers[i][1])
    THEN Tiers[CHOOSE i \in 1..Len(Tiers) :
                 /\ w <= Gram(Tiers[i][1])
                 /\ \A j \in 1..(i - 1) : w > Gram(Tiers[j][1])][2]
    ELSE 110

\* C6: shipping_cost is the tier of billable_weight_g alone (at most 500 g:
\* 45, at most 1000 g: 65, at most 2000 g: 85, above: 110), and of two
\* estimates the one with the smaller billable weight never costs more.
CostTiers ==
    /\ \A c \in CostCalls : c.out.shipping_cost_inr = TierCost(c.out.billable_weight_g)
    /\ \A c1, c2 \in CostCalls :
          c1.out.billable_weight_g <= c2.out.billable_weight_g
             => c1.out.shipping_cost_inr <= c2.out.shipping_cost_inr

\* two successive estimates on the two sides of the first tier bound
CostTiersWitness ==
    /\ Len(cost_out) = 2
    /\ cost_out[1].out.billable_weight_g = Gram(500)
    /\ cost_out[1].out.shipping_cost_inr = 45
    /\ cost_out[2].out.billable_weight_g = Gram(500) + 1
    /\ cost_out[2].out.shipping_cost_inr = 65

\* ------------------------------------------------------------------------
\* Variant generator (specification SpecVariants)

\* class VariantType and the order of the variants list
VariantTypes == <<"standard", "detail_focus", "warm_minimal", "hero_compact", "sticker">>

TILE_NAMES == <<"Hero White Front", "3/4 Angle", "Lifestyle Scene", "Dark Luxury">>

\* the size of the grid image of each layout
GridSize(layout) == IF layout = "2x3" THEN <<1024, 1536>> ELSE <<1024, 1024>>

\* the tiles the layout holds
GridTiles(layout) == IF layout = "2x3" THEN 6 ELSE 4

\* generate_all_shipping_variants: the image is resized to 1024x1024 and
\* cut with cols, rows = 2, 2, whatever its size
tile_count(size) == 2 * 2

\* the transform each entry of the variants list applies (lines 429-436):
\* img.copy(), adjust_background_tone(warmth=-20),
\* adjust_background_tone(warmth=25), zoom_out(factor=0.80),
\* apply_sticker_overlay; micro_rotate (lines 148-169) is in no entry
VariantTransforms_rotating ==
    <<"copy", "zoom_out", "adjust_background_tone", "micro_rotate",
      "apply_sticker_overlay">>

VariantTransforms ==
    <<"copy", "adjust_background_tone", "adjust_background_tone", "zoom_out",
      "apply_sticker_overlay">>

\* the warmth argument of the two tone entries, 0 for the others
VariantWarmth == <<0, -20, 25, 0, 0>>

VariantsPerTile == Len(VariantTypes)

VariantInfo(t, v) ==
    [tile_index |-> t,
     variant_type |-> VariantTypes[v + 1],
     variant_index |-> v,
     global_index |-> t * 5 + v,
     tile_name |-> IF t < Len(TILE_NAMES) THEN TILE_NAMES[t + 1] ELSE "Tile"]

\* one pass of the loop at lines 438-453: the VariantInfo of the entry and
\* the transform_fn called on the tile
Attempt(t, v) ==
    [tile_index |-> VariantInfo(t, v).tile_index,
     variant_type |-> VariantInfo(t, v).variant_type,
     variant_index |-> VariantInfo(t, v).variant_index,
     global_index |-> VariantInfo(t, v).global_index,
     tile_name |-> VariantInfo(t, v).tile_name,
     transform |-> VariantTransforms[v + 1],
     warmth |-> VariantWarmth[v + 1]]

\* Bound on the variants that fail in one run
MaxFailures == 2

InitVariants ==
    /\ PipeIdle
    /\ CostIdle
    /\ RestIdle
    /\ grid \in {"2x2", "2x3"}
    /\ tile_idx = 0
    /\ variant_idx = 0
    /\ attempted = <<>>
    /\ emitted = <<>>
    /\ gen_pc = "running"

Advance ==
    /\ variant_idx' = (variant_idx + 1) % VariantsPerTile
    /\ tile_idx' = IF variant_idx + 1 = VariantsPerTile THEN tile_idx + 1 ELSE tile_idx
    /\ gen_pc' = IF variant_idx + 1 = VariantsPerTile
                    /\ tile_idx + 1 = tile_count(GridSize(grid))
                 THEN "done" ELSE "running"

\* the transform and the JPEG save succeed: the variant is yielded
VariantOk ==
    /\ gen_pc = "running"
    /\ attempted' = Append(attempted, Attempt(tile_idx, variant_idx))
    /\ emitted' = Append(emitted, VariantInfo(tile_idx, variant_idx))
    /\ Advance
    /\ UNCHANGED grid
    /\ UNCHANGED <<pipe_vars, cost_vars, rest_vars>>

\* generate_shipping_variants lines 438-453: the transform raises, the
\* variant is skipped and the loop continues
VariantTransformFails ==
    /\ gen_pc = "running"
    /\ Len(attempted) - Len(emitted) < MaxFailures
    /\ attempted' = Append(attempted, Attempt(tile_idx, variant_idx))
    /\ Advance
    /\ UNCHANGED <<grid, emitted>>
    /\ UNCHANGED <<pipe_vars, cost_vars, rest_vars>>

\* generate_all_shipping_variants lines 488-492: variant_img.save raises
\* outside any try, which ends the generator
VariantSaveFails ==
    /\ gen_pc = "running"
    /\ attempted' = Append(attempted, Attempt(tile_idx, variant_idx))
    /\ gen_pc' = "aborted"
    /\ UNCHANGED <<grid, tile_idx, variant_idx, emitted>>
    /\ UNCHANGED <<pipe_vars, cost_vars, rest_vars>>

NextVariants ==
    \/ VariantOk
    \/ VariantTransformFails
    \/ VariantSaveFails

SpecVariants == InitVariants /\ [][NextVariants]_vars

\* C10 as stated: a 2x3 grid has 30 variants attempted and a 2x2 grid 20,
\* five per tile with variant_index 0..4, each with
\* global_index = tile_index * 5 + variant_index, the indices pairwise
\* distinct and covering [0,29] respectively [0,19].
VariantCompleteness ==
    gen_pc = "done" =>
        LET n == GridTiles(grid) * 5
        IN  /\ Len(attempted) = n
            /\ {attempted[i].global_index : i \in 1..Len(attempted)} = 0..(n - 1)
            /\ \A i \in 1..Len(attempted) :
                  /\ attempted[i].variant_index \in 0..4
                  /\ attempted[i].global_index =
                       attempted[i].tile_index * 5 + attempted[i].variant_index

\* C11 as stated: a variant that fails, in its transform or in its JPEG
\* encoding, is dropped alone: once the generator has ended, every variant
\* of every tile has been attempted, each one that did not fail has been
\* emitted, and the emitted count is tile_count * 5 minus the failures.
VariantFailuresIsolated ==
    gen_pc # "running" =>
        LET n == tile_count(GridSize(grid)) * VariantsPerTile
            failures == Len(attempted) - Len(emitted)
        IN  /\ gen_pc = "done"
            /\ Len(attempted) = n
            /\ Len(emitted) = n - failures

\* the transforms attempted for tile t, in order
TileTransforms(t) ==
    LET idx == {i \in 1..Len(attempted) : attempted[i].tile_index = t}
    IN  [v \in 0..(VariantsPerTile - 1) |->
            {attempted[i].transform : i \in {j \in idx : attempted[j].variant_index = v}}]

\* C12 as stated: the five variants of every tile are a standard copy, a
\* zoom-out, a tone variant, a micro-rotation and a sticker overlay.
VariantsAsNamed ==
    gen_pc = "done" =>
        \A t \in 0..(tile_count(GridSize(grid)) - 1) :
            UNION {TileTransforms(t)[v] : v \in 0..(VariantsPerTile - 1)} =
                {"copy", "zoom_out", "adjust_background_tone", "micro_rotate",
                 "apply_sticker_overlay"}

\* C12, amended: the five variants attempted for every tile are, in order,
\* standard (copy), detail_focus (cool tone, warmth -20), warm_minimal
\* (warm tone, warmth 25), hero_compact (zoom-out) and sticker (overlay);
\* no variant is a micro-rotation.
VariantsAsCoded ==
    \A i \in 1..Len(attempted) :
        LET a == attempted[i]
        IN  /\ a.transform # "micro_rotate"
            /\ <<a.variant_type, a.transform, a.warmth>> =
                  CASE a.variant_index = 0 -> <<"standard", "copy", 0>>
                    [] a.variant_index = 1 ->
                          <<"detail_focus", "adjust_background_tone", -20>>
                    [] a.variant_index = 2 ->
                          <<"warm_minimal", "adjust_background_tone", 25>>
                    [] a.variant_index = 3 -> <<"hero_compact", "zoom_out", 0>>
                    [] OTHER -> <<"sticker", "apply_sticker_overlay", 0>>

VariantsAsCodedWitness ==
    /\ gen_pc = "done"
    /\ Len(attempted) = tile_count(GridSize(grid)) * VariantsPerTile
    /\ Len(emitted) < Len(attempted)

\* ------------------------------------------------------------------------
\* JPEG encoders that aim at a size window (specification SpecEnc)

\* the default of the qualities argument of _encode_jpeg_target_size
DefaultQualities == <<95, 93, 92, 90, 88, 86, 84, 82, 80, 78, 76, 74>>

\* the qualities the loop of encode_variant_jpeg tries
VariantQualities == <<95, 93, 92, 90, 88, 86, 84, 82, 80>>

\* the windows of the callers, in bytes: target_kb_range (100, 200) of
\* encode_variant_jpeg and (150, 300) of _crop_grid_variants
Windows == {<<KB(100), KB(200)>>, <<KB(150), KB(300)>>}

\* Bound on the leading qualities whose encoded size is chosen freely; the
\* remaining qualities of an input share one size
MaxTried == 2

\* sizes below, at, inside and above both windows
EncSizes == {KB(80), KB(90), KB(100), KB(150), KB(200), KB(250), KB(300),
             KB(310), KB(320)}

\* sizes of the quality-85 baseline encoding
FallbackSizes == {KB(150), KB(320)}

QualityPos(q) == CHOOSE i \in 1..Len(DefaultQualities) : DefaultQualities[i] = q

\* what Pillow's save() yields for one image: the length of the JPEG at each
\* quality, a property of the image that the code does not control
SizeTables ==
    {[q \in {DefaultQualities[i] : i \in 1..Len(DefaultQualities)} |->
         IF QualityPos(q) <= MaxTried THEN head[QualityPos(q)] ELSE rest] :
     head \in [1..MaxTried -> EncSizes], rest \in EncSizes}

\* the qualities arguments: the default tuple and its short prefixes, the
\* empty tuple included
QualityLists ==
    {SubSeq(DefaultQualities, 1, k) : k \in 0..MaxTried} \cup {DefaultQualities}

EncInputs ==
    [window : Windows, qualities : QualityLists, size : SizeTables,
     fallback_len : FallbackSizes]

\* bytes of one save(): the arguments that vary between the calls, and the
\* length
Encoding(quality, progressive, len) ==
    [quality |-> quality, progressive |-> progressive, len |-> len]

\* img.save(buf, format="JPEG", quality=q, optimize=True, progressive=True)
save(in, q) == Encoding(q, TRUE, in.size[q])

\* "n <= max_bytes and n > best_under_max_len" with the last candidate kept
under_max_improves_last(n, max_bytes, best) == n <= max_bytes

\* "n <= max_bytes and n > best_under_max_len"; best_under_max_len is -1
\* while best_under_max is None
under_max_improves(n, max_bytes, best) ==
    /\ n <= max_bytes
    /\ n > (IF IsSome(best) THEN Val(best).len ELSE -1)

\* "n >= min_bytes and n < best_over_min_len"; best_over_min_len is 10**18
\* while best_over_min is None, above every length that occurs
over_min_improves(n, min_bytes, best) ==
    /\ n >= min_bytes
    /\ (IsSome(best) => n < Val(best).len)

RECURSIVE target_scan(_, _, _, _)
\* _encode_jpeg_target_size from the i-th quality on, with the two bests so
\* far; "via" names the return statement that was taken
target_scan(in, i, best_under_max, best_over_min) ==
    IF i > Len(in.qualities)
    THEN IF IsSome(best_under_max)
         THEN [enc |-> Val(best_under_max), via |-> "best_under_max"]
         ELSE IF IsSome(best_over_min)
              THEN [enc |-> Val(best_over_min), via |-> "best_over_min"]
              ELSE [enc |-> save(in, 92), via |-> "last_resort"]
    ELSE LET data == save(in, in.qualities[i])
             n == data.len
         IN  IF in.window[1] <= n /\ n <= in.window[2]
             THEN [enc |-> data, via |-> "window"]
             ELSE target_scan(in, i + 1,
                      IF under_max_improves(n, in.window[2], best_under_max)
                      THEN Some(data) ELSE best_under_max,
                      IF over_min_improves(n, in.window[1], best_over_min)
                      THEN Some(data) ELSE best_over_min)

encode_jpeg_target_size(in) == target_scan(in, 1, None, None)

RECURSIVE variant_scan(_, _)
\* encode_variant_jpeg from the i-th quality on; "tried" counts the
\* encodings made by the loop
variant_scan(in, i) ==
    IF i > Len(VariantQualities)
    THEN [enc |-> Encoding(85, FALSE, in.fallback_len), via |-> "fallback",
          tried |-> Len(VariantQualities)]
    ELSE LET data == save(in, VariantQualities[i])
         IN  IF in.window[1] <= data.len /\ data.len <= in.window[2]
             THEN [enc |-> data, via |-> "window", tried |-> i]
             ELSE IF data.len < in.window[1]
                  THEN [enc |-> data, via |-> "below_min", tried |-> i]
                  ELSE variant_scan(in, i + 1)

encode_variant_jpeg(in) == variant_scan(in, 1)

InitEnc ==
    /\ PipeIdle
    /\ CostIdle
    /\ GenIdle
    /\ PxIdle
    /\ DbIdle
    /\ ExtIdle("none")
    /\ enc_in \in {Some(in) : in \in EncInputs}
    /\ enc_out = None

EncodeTargetSize ==
    /\ IsSome(enc_in)
    /\ enc_out = None
    /\ enc_out' = Some([fn |-> "_encode_jpeg_target_size",
                        enc |-> encode_jpeg_target_size(Val(enc_in)).enc,
                        via |-> encode_jpeg_target_size(Val(enc_in)).via,
                        tried |-> Len(Val(enc_in).qualities)])
    /\ UNCHANGED enc_in
    /\ UNCHANGED <<pipe_vars, cost_vars, gen_vars, px_vars, db_vars, ext_vars>>

EncodeVariant ==
    /\ IsSome(enc_in)
    /\ enc_out = None
    /\ enc_out' = Some([fn |-> "encode_variant_jpeg",
                        enc |-> encode_variant_jpeg(Val(enc_in)).enc,
                        via |-> encode_variant_jpeg(Val(enc_in)).via,
                        tried |-> encode_variant_jpeg(Val(enc_in)).tried])
    /\ UNCHANGED enc_in
    /\ UNCHANGED <<pipe_vars, cost_vars, gen_vars, px_vars, db_vars, ext_vars>>

NextEnc ==
    \/ EncodeTargetSize
    \/ EncodeVariant

SpecEnc == InitEnc /\ [][NextEnc]_vars

\* the selection rule of the size-targeting encoder, for the encodings
\* tried (those of the qualities qs, in order) and the encoding returned
SelectionRule(in, qs, returned) ==
    LET tried == [i \in 1..Len(qs) |-> save(in, qs[i])]
        in_window == {i \in 1..Len(qs) : /\ in.window[1] <= tried[i].len
                                         /\ tried[i].len <= in.window[2]}
        under_max == {i \in 1..Len(qs) : tried[i].len <= in.window[2]}
        over_min == {i \in 1..Len(qs) : tried[i].len >= in.window[1]}
    IN  IF in_window # {}
        THEN returned = tried[CHOOSE i \in in_window : \A j \in in_window : i <= j]
        ELSE IF under_max # {}
        THEN /\ \E i \in under_max : returned = tried[i]
             /\ \A i \in under_max : tried[i].len <= returned.len
        ELSE IF over_min # {}
        THEN /\ \E i \in over_min : returned = tried[i]
             /\ \A i \in over_min : tried[i].len >= returned.len
        ELSE TRUE

\* C17: _encode_jpeg_target_size returns the first tried encoding inside the
\* window; else the largest tried encoding <= max; else the smallest tried
\* encoding >= min; the fixed-quality last resort exactly when nothing was
\* tried.
TargetSizeRule ==
    (IsSome(enc_out) /\ Val(enc_out).fn = "_encode_jpeg_target_size") =>
        LET in == Val(enc_in)
        IN  /\ SelectionRule(in, in.qualities, Val(enc_out).enc)
            /\ Val(enc_out).via = "last_resort" <=>
                  \A i \in 1..Len(in.qualities) :
                      /\ save(in, in.qualities[i]).len > in.window[2]
                      /\ save(in, in.qualities[i]).len < in.window[1]

\* the default qualities, the first encoding above the window, two
\* different sizes below it of which the larger, tried earlier, is returned
TargetSizeRuleWitness ==
    /\ IsSome(enc_out)
    /\ Val(enc_out).fn = "_encode_jpeg_target_size"
    /\ Val(enc_in).qualities = DefaultQualities
    /\ Val(enc_in).size[95] > Val(enc_in).window[2]
    /\ Val(enc_in).size[93] < Val(enc_in).window[1]
    /\ Val(enc_in).size[74] < Val(enc_in).size[93]
    /\ Val(enc_out).enc = Encoding(93, TRUE, Val(enc_in).size[93])

\* C18 as stated: encode_variant_jpeg follows the same selection rule over
\* the encodings it tried, also when every one of them exceeds max.
VariantEncoderRule ==
    (IsSome(enc_out) /\ Val(enc_out).fn = "encode_variant_jpeg") =>
        SelectionRule(Val(enc_in),
                      SubSeq(VariantQualities, 1, Val(enc_out).tried),
                      Val(enc_out).enc)

\* ------------------------------------------------------------------------
\* Background replacement and sharpening, pixel by pixel (specification
\* SpecPixels).  The three colour channels are treated alike and apart
\* (bg_mask[:, :, None], np.dstack of the mask three times, filter2D per
\* channel), so one channel is modelled, on a canvas of PxW columns and two
\* rows.

\* Bound on the canvas width
PxW == 2

Pixels == (0..(PxW - 1)) \X (0..1)

PxValues == {0, 128, 255}

\* canvases, and the masks the segmenters build (0 background, 255 product)
PxInputs ==
    [image : [Pixels -> PxValues],
     mask : {None} \cup {Some(m) : m \in [Pixels -> {0, 255}]}]

\* cv2.BORDER_REFLECT_101, the default border of cv2.filter2D
reflect_101(i, n) == IF i < 0 THEN -i ELSE IF i >= n THEN 2 * (n - 1) - i ELSE i

\* conversion of a filter result to np.uint8
saturate(v) == Max(0, Min(255, v))

Neighbour(img, p, dx, dy) ==
    img[<<reflect_101(p[1] + dx, PxW), reflect_101(p[2] + dy, 2)>>]

\* cv2.filter2D(image, -1, kernel), kernel = [[-1,-1,-1],[-1,9,-1],[-1,-1,-1]]
filter2D(img) ==
    [p \in Pixels |->
        saturate(9 * img[p]
                 - Neighbour(img, p, -1, -1) - Neighbour(img, p, 0, -1)
                 - Neighbour(img, p, 1, -1) - Neighbour(img, p, -1, 0)
                 - Neighbour(img, p, 1, 0) - Neighbour(img, p, -1, 1)
                 - Neighbour(img, p, 0, 1) - Neighbour(img, p, 1, 1))]

\* cv2.bitwise_not on np.uint8
bitwise_not(v) == 255 - v

\* background replacement that whitens where the mask is 255
white_bg_inverted_px(img, mask, raises) ==
    IF ~IsSome(mask) THEN img
    ELSE IF raises THEN img
    ELSE [p \in Pixels |-> IF Val(mask)[p] = 255 THEN 255 ELSE img[p]]

\* apply_white_bg_product_only: np.where(bg_mask == 255, white_bg, image)
\* with bg_mask = cv2.bitwise_not(product_mask); the image itself without a
\* mask or on an exception
apply_white_bg_px(img, mask, raises) ==
    IF ~IsSome(mask) THEN img
    ELSE IF raises THEN img
    ELSE [p \in Pixels |-> IF bitwise_not(Val(mask)[p]) = 255 THEN 255 ELSE img[p]]

\* selective_sharpen: the filtered image without a mask, else
\* np.where(mask == 255, sharpened, image); the image itself on an exception
selective_sharpen_px(img, mask, raises) ==
    IF raises THEN img
    ELSE IF ~IsSome(mask) THEN filter2D(img)
    ELSE [p \in Pixels |-> IF Val(mask)[p] = 255 THEN filter2D(img)[p] ELSE img[p]]

InitPixels ==
    /\ PipeIdle
    /\ CostIdle
    /\ GenIdle
    /\ EncIdle
    /\ DbIdle
    /\ ExtIdle("none")
    /\ px_in \in {Some(in) : in \in PxInputs}
    /\ px_image = Some(Val(px_in).image)
    /\ px_pc = "white_bg"
    /\ px_failed = {}

\* optimize_image lines 107-109
PxWhiteBg ==
    /\ px_pc = "white_bg"
    /\ \E raises \in BOOLEAN :
         /\ px_image' = Some(apply_white_bg_px(Val(px_image), Val(px_in).mask, raises))
         /\ px_failed' = IF raises /\ IsSome(Val(px_in).mask)
                         THEN px_failed \cup {"white_bg"} ELSE px_failed
    /\ px_pc' = "sharpen"
    /\ UNCHANGED px_in
    /\ UNCHANGED <<pipe_vars, cost_vars, gen_vars, enc_vars, db_vars, ext_vars>>

\* optimize_image lines 111-113
PxSharpen ==
    /\ px_pc = "sharpen"
    /\ \E raises \in BOOLEAN :
         /\ px_image' = Some(selective_sharpen_px(Val(px_image), Val(px_in).mask, raises))
         /\ px_failed' = IF raises THEN px_failed \cup {"sharpen"} ELSE px_failed
    /\ px_pc' = "compress"
    /\ UNCHANGED px_in
    /\ UNCHANGED <<pipe_vars, cost_vars, gen_vars, enc_vars, db_vars, ext_vars>>

NextPixels ==
    \/ PxWhiteBg
    \/ PxSharpen

SpecPixels == InitPixels /\ [][NextPixels]_vars

\* the canvas with every background pixel of the mask set to white
Whitened(img, mask) == [p \in Pixels |-> IF mask[p] = 0 THEN 255 ELSE img[p]]

\* C19: in the canvas handed to the encoder, when neither step failed: with
\* a mask every background pixel is pure white and every product pixel
\* holds the kernel's value at that pixel, its own colour at the centre of
\* the kernel not whitened; without a mask no pixel is set to white and the
\* kernel is applied to the entire canvas.
SelectiveCanvas ==
    (px_pc = "compress" /\ px_failed = {}) =>
        LET img == Val(px_in).image
            mask == Val(px_in).mask
        IN  IF IsSome(mask)
            THEN \A p \in Pixels :
                    /\ Val(mask)[p] = 0 => Val(px_image)[p] = 255
                    /\ Val(mask)[p] = 255 =>
                          Val(px_image)[p] = filter2D(Whitened(img, Val(mask)))[p]
            ELSE Val(px_image) = filter2D(img)

\* a non-white background pixel was whitened and a product pixel was
\* changed by the kernel to a value that is not saturated
SelectiveCanvasWitness ==
    /\ px_pc = "compress"
    /\ px_failed = {}
    /\ IsSome(Val(px_in).mask)
    /\ \E p \in Pixels :
          /\ Val(Val(px_in).mask)[p] = 0
          /\ Val(px_in).image[p] # 255
          /\ Val(px_image)[p] = 255
    /\ \E p \in Pixels :
          /\ Val(Val(px_in).mask)[p] = 255
          /\ Val(px_image)[p] \notin {0, 255, Val(px_in).image[p]}

\* ------------------------------------------------------------------------
\* Payments: verification requests and Razorpay webhooks on one order
\* (specification SpecPay).  Every request has its own AsyncSession
\* (database.py get_db), hence its own transaction: what it writes is
\* pending until the commit, a statement reads what is committed at that
\* moment, and an UPDATE or SELECT ... FOR UPDATE waits for the row lock.

\* Bound on the requests in flight
MaxRequests == 3

Reqs == 1..MaxRequests

\* users.credits of a new user, and the credits of the starter pack
InitialCredits == 1
CreditsPurchased == 10

\* the events Razorpay delivers, each delivery of an event with the same
\* body: the event type and where the body holds the payment entity
EventBodies ==
    [evt_captured |-> [event_type |-> "payment.captured", entity_at |-> "payment.entity"],
     evt_nested |-> [event_type |-> "payment.captured",
                     entity_at |-> "payload.payment.entity"],
     evt_failed |-> [event_type |-> "payment.failed", entity_at |-> "payment.entity"],
     evt_other |-> [event_type |-> "order.paid", entity_at |-> "payload.payment.entity"]]

EventIds == DOMAIN EventBodies

IdleReq ==
    [kind |-> "idle", pc |-> "idle", event_id |-> "", sig_ok |-> FALSE,
     authenticated |-> FALSE, late |-> FALSE, seen_credits |-> None,
     seen_status |-> "", w_order |-> None, w_credits |-> None, w_log |-> FALSE,
     response |-> ""]

\* requests arrive in the order of their numbers
MayStart(r) ==
    /\ req[r].pc = "idle"
    /\ IF r = 1 THEN TRUE ELSE req[r - 1].pc # "idle"

\* a query that returns a row whose object the session loaded afresh
refreshing_read(cached, committed) == committed

\* select(User) in a session that already holds the User object (loaded by
\* get_current_user through the same Depends(get_db) session): the object of
\* the identity map is returned, its loaded attributes are not refreshed
identity_map_read(cached, committed) ==
    IF IsSome(cached) THEN Val(cached) ELSE committed

\* the lookup that never finds a row
log_exists_never(event_id, logs) == FALSE

\* select(WebhookLog).where(WebhookLog.event_id == event_id)
log_exists(event_id, logs) == event_id \in logs

\* what the dispatch of process_webhook_event and the handler's
\* payload.get("payment", {}).get("entity", {}) make of a body: without a
\* top-level "payment" key the handler finds no order_id and returns
handler_effect(body) ==
    IF body.entity_at # "payment.entity" THEN "none"
    ELSE IF body.event_type = "payment.captured" THEN "capture"
    ELSE IF body.event_type = "payment.failed" THEN "fail"
    ELSE "none"

\* the session is closed without commit: pending writes are dropped and the
\* row locks released
Rollback(r, response) ==
    /\ req' = [req EXCEPT ![r] = [@ EXCEPT !.pc = "done", !.response = response,
                                         !.w_order = None, !.w_credits = None,
                                         !.w_log = FALSE]]
    /\ order_lock' = IF order_lock = r THEN 0 ELSE order_lock
    /\ user_lock' = IF user_lock = r THEN 0 ELSE user_lock
    /\ UNCHANGED <<order_status, order_payment_id, user_credits, webhook_logs>>

InitPay ==
    /\ PipeIdle
    /\ CostIdle
    /\ GenIdle
    /\ EncIdle
    /\ PxIdle
    /\ ExtIdle("none")
    /\ order_status = "created"
    /\ order_payment_id = None
    /\ user_credits = InitialCredits
    /\ credits_held = InitialCredits
    /\ webhook_logs = {}
    /\ order_lock = 0
    /\ user_lock = 0
    /\ req = [r \in Reqs |-> IdleReq]

\* POST /verify arrives, with a valid or an invalid signature
StartVerify(r) ==
    /\ MayStart(r)
    /\ \E sig_ok \in BOOLEAN :
         req' = [req EXCEPT ![r] = [@ EXCEPT !.kind = "verify", !.pc = "auth",
                                            !.sig_ok = sig_ok]]
    /\ UNCHANGED <<order_status, order_payment_id, user_credits, webhook_logs,
                   order_lock, user_lock>>

\* POST /webhook arrives with a correctly signed body
StartWebhook(r) ==
    /\ MayStart(r)
    /\ \E e \in EventIds :
         req' = [req EXCEPT ![r] = [@ EXCEPT !.kind = "webhook", !.pc = "select_log",
                                            !.event_id = e,
                                            !.late = (e \in webhook_logs)]]
    /\ UNCHANGED <<order_status, order_payment_id, user_credits, webhook_logs,
                   order_lock, user_lock>>

\* get_current_user: the User row is loaded into the request's session
VerifyAuth(r) ==
    /\ req[r].kind = "verify"
    /\ req[r].pc = "auth"
    /\ req' = [req EXCEPT ![r] = [@ EXCEPT !.pc = "select_order",
                                         !.seen_credits = Some(user_credits)]]
    /\ UNCHANGED <<order_status, order_payment_id, user_credits, webhook_logs,
                   order_lock, user_lock>>

\* process_payment_verification up to the signature check: the order is
\* selected without a lock; a PAID order raises OrderAlreadyProcessedError;
\* a bad signature writes FAILED, flushes and raises, and verify_payment
\* answers without commit
VerifySelectOrder(r) ==
    /\ req[r].kind = "verify"
    /\ req[r].pc = "select_order"
    /\ IF order_status = "paid"
       THEN Rollback(r, "already_processed")
       ELSE IF ~req[r].sig_ok
            THEN /\ order_lock = 0
                 /\ Rollback(r, "bad_signature")
            ELSE /\ req' = [req EXCEPT ![r] = [@ EXCEPT !.pc = "update_order",
                                                      !.seen_status = order_status]]
                 /\ UNCHANGED <<order_status, order_payment_id, user_credits,
                                webhook_logs, order_lock, user_lock>>

\* order.status = PAID, written by the autoflush that precedes select(User)
VerifyUpdateOrder(r) ==
    /\ req[r].kind = "verify"
    /\ req[r].pc = "update_order"
    /\ order_lock = 0
    /\ order_lock' = r
    /\ req' = [req EXCEPT ![r] = [@ EXCEPT !.pc = "update_user",
                                         !.w_order = Some("paid")]]
    /\ UNCHANGED <<order_status, order_payment_id, user_credits, webhook_logs,
                   user_lock>>

\* select(User) without a lock, user.credits += order.credits_purchased,
\* flush
VerifyUpdateUser(r) ==
    /\ req[r].kind = "verify"
    /\ req[r].pc = "update_user"
    /\ user_lock = 0
    /\ user_lock' = r
    /\ req' = [req EXCEPT ![r] =
                 [@ EXCEPT !.pc = "commit",
                           !.w_credits = Some(identity_map_read(req[r].seen_credits,
                                                                user_credits)
                                              + CreditsPurchased)]]
    /\ UNCHANGED <<order_status, order_payment_id, user_credits, webhook_logs,
                   order_lock>>

\* process_webhook_event: the idempotency lookup; an existing log makes it
\* return False, which handle_webhook commits and logs as skipped
WebhookSelectLog(r) ==
    /\ req[r].kind = "webhook"
    /\ req[r].pc = "select_log"
    /\ IF log_exists(req[r].event_id, webhook_logs)
       THEN Rollback(r, "skipped")
       ELSE /\ req' = [req EXCEPT ![r] = [@ EXCEPT !.pc = "insert_log"]]
            /\ UNCHANGED <<order_status, order_payment_id, user_credits,
                           webhook_logs, order_lock, user_lock>>

\* db.add(webhook_log) and flush: the INSERT waits for an uncommitted row
\* with the same event_id (unique index), and fails when one is committed;
\* handle_webhook then rolls back and answers {"status": "error"}
WebhookInsertLog(r) ==
    /\ req[r].kind = "webhook"
    /\ req[r].pc = "insert_log"
    /\ \A o \in Reqs \ {r} : ~(req[o].w_log /\ req[o].event_id = req[r].event_id)
    /\ IF req[r].event_id \in webhook_logs
       THEN Rollback(r, "error")
       ELSE /\ req' = [req EXCEPT ![r] = [@ EXCEPT !.pc = "handle", !.w_log = TRUE]]
            /\ UNCHANGED <<order_status, order_payment_id, user_credits,
                           webhook_logs, order_lock, user_lock>>

\* _handle_payment_captured / _handle_payment_failed up to the order: the
\* order is selected FOR UPDATE
WebhookHandle(r) ==
    /\ req[r].kind = "webhook"
    /\ req[r].pc = "handle"
    /\ LET effect == handler_effect(EventBodies[req[r].event_id])
       IN  IF effect = "none"
           THEN /\ req' = [req EXCEPT ![r] = [@ EXCEPT !.pc = "commit"]]
                /\ UNCHANGED order_lock
           ELSE /\ order_lock = 0
                /\ order_lock' = r
                /\ req' = [req EXCEPT ![r] =
                     [@ EXCEPT !.seen_status = order_status,
                               !.pc = IF effect = "capture" /\ order_status # "paid"
                                      THEN "lock_user" ELSE "commit",
                               !.w_order =
                                  IF effect = "capture" /\ order_status # "paid"
                                  THEN Some("paid")
                                  ELSE IF effect = "fail"
                                          /\ order_status \notin {"paid", "failed"}
                                       THEN Some("failed") ELSE None]]
    /\ UNCHANGED <<order_status, order_payment_id, user_credits, webhook_logs,
                   user_lock>>

\* _handle_payment_captured: select(User) FOR UPDATE in a session that has
\* not loaded the user, user.credits += order.credits_purchased
WebhookLockUser(r) ==
    /\ req[r].kind = "webhook"
    /\ req[r].pc = "lock_user"
    /\ user_lock = 0
    /\ user_lock' = r
    /\ req' = [req EXCEPT ![r] =
                 [@ EXCEPT !.pc = "commit",
                           !.seen_credits = Some(user_credits),
                           !.w_credits = Some(user_credits + CreditsPurchased)]]
    /\ UNCHANGED <<order_status, order_payment_id, user_credits, webhook_logs,
                   order_lock>>

\* await db.commit() of verify_payment and of handle_webhook
Commit(r) ==
    /\ req[r].kind \in {"verify", "webhook"}
    /\ req[r].pc = "commit"
    /\ order_status' = IF IsSome(req[r].w_order) THEN Val(req[r].w_order)
                       ELSE order_status
    /\ order_payment_id' = IF req[r].w_order = Some("paid") THEN Some("pay_1")
                           ELSE order_payment_id
    /\ user_credits' = IF IsSome(req[r].w_credits) THEN Val(req[r].w_credits)
                       ELSE user_credits
    /\ webhook_logs' = IF req[r].w_log THEN webhook_logs \cup {req[r].event_id}
                       ELSE webhook_logs
    /\ order_lock' = IF order_lock = r THEN 0 ELSE order_lock
    /\ user_lock' = IF user_lock = r THEN 0 ELSE user_lock
    /\ req' = [req EXCEPT ![r] =
                 [@ EXCEPT !.pc = "done",
                           !.response = IF req[r].kind = "verify" THEN "ok"
                                        ELSE "processed"]]

NextPay ==
    \E r \in Reqs :
        /\ \/ StartVerify(r)
           \/ StartWebhook(r)
           \/ VerifyAuth(r)
           \/ VerifySelectOrder(r)
           \/ VerifyUpdateOrder(r)
           \/ VerifyUpdateUser(r)
           \/ WebhookSelectLog(r)
           \/ WebhookInsertLog(r)
           \/ WebhookHandle(r)
           \/ WebhookLockUser(r)
           \/ Commit(r)
        /\ UNCHANGED credits_held
        /\ UNCHANGED <<pipe_vars, cost_vars, gen_vars, enc_vars, px_vars, ext_vars>>

SpecPay == InitPay /\ [][NextPay]_vars

\* C13: under every interleaving of verify requests and webhooks on the
\* order, the owner's balance is the initial one or the initial one plus
\* credits_purchased, the latter only with the order PAID; a verify request
\* that finds the order PAID is rejected as already processed and writes
\* nothing.
AllocatedAtMostOnce ==
    /\ user_credits \in {InitialCredits, InitialCredits + CreditsPurchased}
    /\ user_credits = InitialCredits + CreditsPurchased => order_status = "paid"
    /\ \A r \in Reqs :
          /\ req[r].response = "already_processed" =>
                /\ req[r].w_order = None
                /\ req[r].w_credits = None
          /\ (req[r].kind = "verify" /\ req[r].response = "ok") =>
                req[r].seen_status # "paid"

\* two verify requests both passed the status check and both committed, and
\* the balance rose once
AllocatedAtMostOnceWitness ==
    /\ \E r1 \in Reqs, r2 \in Reqs :
          /\ r1 # r2
          /\ req[r1].kind = "verify" /\ req[r1].response = "ok"
          /\ req[r2].kind = "verify" /\ req[r2].response = "ok"
    /\ user_credits = InitialCredits + CreditsPurchased

CapturedWebhookAllocates ==
    \A r \in Reqs :
        (req[r].event_id = "evt_nested" /\ req[r].response = "processed") =>
            /\ order_status = "paid"
            /\ IsSome(order_payment_id)
            /\ user_credits = InitialCredits + CreditsPurchased

\* ------------------------------------------------------------------------
\* Credits enforcement of POST /optimize and POST /optimize-stream
\* (specification SpecCredits), on the requests and the users row above

\* Bound on the credits the user holds at the start
MaxCredits == 2

InitCredits ==
    /\ PipeIdle
    /\ CostIdle
    /\ GenIdle
    /\ EncIdle
    /\ PxIdle
    /\ ExtIdle("none")
    /\ order_status = "none"
    /\ order_payment_id = None
    /\ user_credits \in 0..MaxCredits
    /\ credits_held = user_credits
    /\ webhook_logs = {}
    /\ order_lock = 0
    /\ user_lock = 0
    /\ req = [r \in Reqs |-> IdleReq]

\* a request arrives at one of the two endpoints, with or without a token
StartOptimize(r) ==
    /\ MayStart(r)
    /\ \E endpoint \in {"optimize", "optimize_stream"}, authenticated \in BOOLEAN :
         req' = [req EXCEPT ![r] = [@ EXCEPT !.kind = endpoint, !.pc = "auth",
                                            !.authenticated = authenticated]]
    /\ UNCHANGED user_credits

\* get_current_user_optional: None without a token, else the User row is
\* loaded into the request's session
OptimizeAuth(r) ==
    /\ req[r].kind \in {"optimize", "optimize_stream"}
    /\ req[r].pc = "auth"
    /\ req' = [req EXCEPT ![r] =
                 [@ EXCEPT !.pc = "enforce",
                           !.seen_credits = IF req[r].authenticated
                                            THEN Some(user_credits) ELSE None]]
    /\ UNCHANGED user_credits

\* "Credits enforcement": 403 when current_user.credits <= 0, else
\* current_user.credits -= 1 and commit, which writes the decremented value
\* of the loaded object
OptimizeEnforce(r) ==
    /\ req[r].kind \in {"optimize", "optimize_stream"}
    /\ req[r].pc = "enforce"
    /\ IF ~IsSome(req[r].seen_credits)
       THEN /\ req' = [req EXCEPT ![r] = [@ EXCEPT !.pc = "done",
                                                 !.response = "accepted"]]
            /\ UNCHANGED user_credits
       ELSE IF Val(req[r].seen_credits) <= 0
            THEN /\ req' = [req EXCEPT ![r] = [@ EXCEPT !.pc = "done",
                                                      !.response = "forbidden"]]
                 /\ UNCHANGED user_credits
            ELSE /\ user_credits' = Val(req[r].seen_credits) - 1
                 /\ req' = [req EXCEPT ![r] =
                              [@ EXCEPT !.pc = "done", !.response = "accepted",
                                        !.w_credits =
                                           Some(Val(req[r].seen_credits) - 1)]]

NextCredits ==
    \E r \in Reqs :
        /\ \/ StartOptimize(r)
           \/ OptimizeAuth(r)
           \/ OptimizeEnforce(r)
        /\ UNCHANGED <<order_status, order_payment_id, credits_held, webhook_logs,
                       order_lock, user_lock>>
        /\ UNCHANGED <<pipe_vars, cost_vars, gen_vars, enc_vars, px_vars, ext_vars>>

SpecCredits == InitCredits /\ [][NextCredits]_vars

\* the authenticated requests that were accepted
Accepted == {r \in Reqs : req[r].authenticated /\ req[r].response = "accepted"}

\* C15 as stated: an authenticated request is accepted only with credits
\* > 0 and deducts one credit, so that under every interleaving the stored
\* balance is never negative and the accepted requests never outnumber the
\* credits the user held.
CreditsEnforced ==
    /\ user_credits >= 0
    /\ \A r \in Accepted : Val(req[r].seen_credits) > 0
    /\ Cardinality(Accepted) <= credits_held
    /\ user_credits = credits_held - Cardinality(Accepted)

\* ------------------------------------------------------------------------
\* The two segmentation strategies of one run (image_optimizer.py 82-90,
\* 156-191)

\* len(product_pixels) > 100 guards the clustering
ClusterMinPixels == 100

\* what became of the KMeans refinement: it is entered only behind the
\* pixel-count guard, and only when nothing before it raised
clustering(in) ==
    IF in.grabcut_raises THEN "not_run"
    ELSE IF in.fg > ClusterMinPixels
         THEN IF in.kmeans_raises THEN "raised" ELSE "ok"
         ELSE "not_run"

SegImage ==
    [w |-> CanvasPx, h |-> CanvasPx, bright |-> 0, cropped |-> FALSE,
     whitened |-> FALSE, sharpened |-> "no"]

SegInputs ==
    [grabcut_raises : BOOLEAN, fg : FgCounts, kmeans_raises : BOOLEAN,
     cover : Covers, canny_raises : BOOLEAN, contours : BOOLEAN]

InitSeg ==
    /\ seg_in \in {Some(i) : i \in SegInputs}
    /\ seg_out = None
    /\ PipeIdle
    /\ CostIdle
    /\ GenIdle
    /\ EncIdle
    /\ PxIdle
    /\ DbIdle
    /\ ExtIdle("seg")

\* line 82: product_mask = detect_product_ml(image_cv)
SegPrimary ==
    /\ seg_out = None
    /\ LET in == Val(seg_in)
           ml == detect_product_ml_result(SegImage, in.grabcut_raises, in.fg,
                                          in.kmeans_raises, in.cover)
       IN  seg_out' = Some([at |-> "primary_returned", primary |-> ml.mask,
                            fallback_ran |-> FALSE, product_mask |-> ml.mask])
    /\ UNCHANGED seg_in

\* lines 84-86: product_mask is None, simple_crop runs
SegFallback ==
    /\ IsSome(seg_out)
    /\ Val(seg_out).at = "primary_returned"
    /\ ~IsSome(Val(seg_out).product_mask)
    /\ LET in == Val(seg_in)
       IN  seg_out' = Some([Val(seg_out) EXCEPT
                !.at = "done",
                !.fallback_ran = TRUE,
                !.product_mask = simple_crop_result(SegImage, in.canny_raises,
                                                    in.contours, 4)])
    /\ UNCHANGED seg_in

\* lines 87-88: the primary mask is kept
SegKeep ==
    /\ IsSome(seg_out)
    /\ Val(seg_out).at = "primary_returned"
    /\ IsSome(Val(seg_out).product_mask)
    /\ seg_out' = Some([Val(seg_out) EXCEPT !.at = "done"])
    /\ UNCHANGED seg_in

NextSeg ==
    /\ \/ SegPrimary
       \/ SegFallback
       \/ SegKeep
    /\ UNCHANGED <<pipe_vars, cost_vars, gen_vars, enc_vars, px_vars, db_vars>>
    /\ UNCHANGED <<crop_vars, stk_vars, oauth_vars, rf_vars, pw_vars, sse_vars>>

SpecSeg == InitSeg /\ [][NextSeg]_vars

PrimaryKind == IF IsSome(Val(seg_out).primary)
               THEN Val(Val(seg_out).primary).kind ELSE "none"

\* C22 as stated: the primary segmenter returns the refined mask whenever the
\* probable foreground is non-empty and clustering succeeds, the unrefined
\* mask only when it is non-empty and clustering fails, None only when it is
\* empty or the strategy fails, and the fallback runs iff the primary
\* returned None.
PrimaryAsStated ==
    (IsSome(seg_out) /\ Val(seg_out).at = "done") =>
        LET in == Val(seg_in)
        IN  /\ (in.fg > 0 /\ clustering(in) = "ok") => PrimaryKind = "refined"
            /\ PrimaryKind = "probable" =>
                    (in.fg > 0 /\ clustering(in) = "raised")
            /\ PrimaryKind = "none" => (in.fg = 0 \/ in.grabcut_raises)
            /\ Val(seg_out).fallback_ran <=> PrimaryKind = "none"

\* C22 amended: the refined mask is returned exactly when more than 100
\* pixels are tagged foreground and clustering succeeds; the unrefined mask
\* exactly when some pixel is tagged and either at most 100 are (clustering
\* is then not attempted) or clustering fails; None exactly when no pixel is
\* tagged or the strategy itself fails; and the fallback runs iff the
\* primary returned None.
PrimaryAsCoded ==
    (IsSome(seg_out) /\ Val(seg_out).at = "done") =>
        LET in == Val(seg_in)
        IN  /\ PrimaryKind = "refined" <=>
                    (~in.grabcut_raises /\ in.fg > ClusterMinPixels
                     /\ ~in.kmeans_raises)
            /\ PrimaryKind = "probable" <=>
                    (~in.grabcut_raises /\ in.fg > 0
                     /\ (in.fg <= ClusterMinPixels \/ in.kmeans_raises))
            /\ PrimaryKind = "none" <=> (in.fg = 0 \/ in.grabcut_raises)
            /\ Val(seg_out).fallback_ran <=> PrimaryKind = "none"

\* a run with 1..100 tagged pixels was answered with the unrefined mask and
\* without the fallback
PrimaryAsCodedWitness ==
    /\ IsSome(seg_out)
    /\ Val(seg_out).at = "done"
    /\ Val(seg_in).fg \in 1..ClusterMinPixels
    /\ ~Val(seg_in).grabcut_raises
    /\ PrimaryKind = "probable"
    /\ ~Val(seg_out).fallback_ran

\* ------------------------------------------------------------------------
\* The crop rectangle (image_optimizer.py 231-257)

MaxSide == 40

\* target_fill=0.90 at the call, as a percentage
TargetFillPct == 90

\* (1 - target_fill) is evaluated in double precision: 0.90 is stored as
\* 0.900000000000000022..., so the difference is 0.0999999999999999778,
\* a little less than one tenth. The fraction below is that value cut to
\* eight digits; on the sides of this model the truncated product equals the
\* one of the double-precision expression.
OneMinusFillNum == 9999999
OneMinusFillDen == 100000000

\* int(min(w, h) * (1 - target_fill) / 2)
crop_margin(w, h) == (Min(w, h) * OneMinusFillNum) \div (OneMinusFillDen * 2)

\* the same expression over the rationals
exact_margin(w, h) == (Min(w, h) * (100 - TargetFillPct)) \div (100 * 2)

ImageSides == {MaxSide \div 2, MaxSide}
BoxSides == {1, 19, 20, 21, MaxSide}

\* cv2.boundingRect of a contour of a mask of the image's size: at least one
\* pixel wide and high, inside the mask
BoundingRects(img_w, img_h) ==
    {b \in [x : {0, 1, img_w - 1, img_w - 20}, y : {0, 1, img_h - 1, img_h - 20},
            w : BoxSides, h : BoxSides] :
        /\ b.x >= 0 /\ b.y >= 0
        /\ b.x + b.w <= img_w /\ b.y + b.h <= img_h}

\* mask: "none" (None), "empty" (findContours finds nothing), "region"
CropInputs ==
    {i \in [img_w : ImageSides, img_h : ImageSides,
            mask : {"none", "empty", "region"}, raises : BOOLEAN,
            box : [x : {0, 1, MaxSide - 1, MaxSide - 20, MaxSide \div 2 - 1},
                   y : {0, 1, MaxSide - 1, MaxSide - 20, MaxSide \div 2 - 1},
                   w : BoxSides, h : BoxSides]] :
        /\ i.box \in BoundingRects(i.img_w, i.img_h)
        /\ (i.mask # "region" => i.box = [x |-> 0, y |-> 0, w |-> 1, h |-> 1])
        /\ (i.mask = "none" => ~i.raises)}

\* the slice image[y1:y2, x1:x2] and the margin it was built with
crop_slice(in) ==
    LET margin == crop_margin(in.box.w, in.box.h)
        x1 == Max(0, in.box.x - margin)
        y1 == Max(0, in.box.y - margin)
        x2 == Min(in.img_w, in.box.x + in.box.w + margin)
        y2 == Min(in.img_h, in.box.y + in.box.h + margin)
    IN  [margin |-> margin, x1 |-> x1, y1 |-> y1, x2 |-> x2, y2 |-> y2]

\* a Python slice holds max(0, stop - start) elements
slice_size(c) == Max(0, c.y2 - c.y1) * Max(0, c.x2 - c.x1)

Uncropped(in) ==
    [cropped |-> FALSE, margin |-> 0, x1 |-> 0, y1 |-> 0,
     x2 |-> in.img_w, y2 |-> in.img_h]

crop_to_product_rect(in) ==
    IF in.mask = "none" THEN Uncropped(in)
    ELSE IF in.raises THEN Uncropped(in)
    ELSE IF in.mask = "region"
         THEN LET c == crop_slice(in)
              IN  IF slice_size(c) > 0
                  THEN [cropped |-> TRUE, margin |-> c.margin, x1 |-> c.x1,
                        y1 |-> c.y1, x2 |-> c.x2, y2 |-> c.y2]
                  ELSE Uncropped(in)
         ELSE Uncropped(in)

InitCrop ==
    /\ crop_in \in {Some(i) : i \in CropInputs}
    /\ crop_out = None
    /\ crop_canvas = None
    /\ PipeIdle
    /\ CostIdle
    /\ GenIdle
    /\ EncIdle
    /\ PxIdle
    /\ DbIdle
    /\ ExtIdle("crop")

CropToProduct ==
    /\ crop_out = None
    /\ crop_out' = Some(crop_to_product_rect(Val(crop_in)))
    /\ UNCHANGED <<crop_in, crop_canvas>>

Frame(x1, y1, x2, y2) == [x1 |-> x1, y1 |-> y1, x2 |-> x2, y2 |-> y2]

\* lines 98-103: image_cropped is resized to the canvas; product_mask, still
\* the mask of image_cv, is resized to the canvas as well. Each canvas array
\* is recorded with the rectangle of image_cv it was resized from.
ResizeToCanvas ==
    /\ IsSome(crop_out)
    /\ crop_canvas = None
    /\ LET in == Val(crop_in)
           out == Val(crop_out)
       IN  crop_canvas' = Some(
               [image |-> Frame(out.x1, out.y1, out.x2, out.y2),
                mask |-> IF in.mask = "none" THEN None
                         ELSE Some(Frame(0, 0, in.img_w, in.img_h))])
    /\ UNCHANGED <<crop_in, crop_out>>

\* the pixel of image_cv that position (u, v) of a canvas array is taken
\* from (for the mask: cv2.INTER_NEAREST, floor of the scaled position)
source_pixel(frame, u, v) ==
    <<frame.x1 + (u * (frame.x2 - frame.x1)) \div CanvasPx,
      frame.y1 + (v * (frame.y2 - frame.y1)) \div CanvasPx>>

NextCrop ==
    /\ \/ CropToProduct
       \/ ResizeToCanvas
    /\ UNCHANGED <<pipe_vars, cost_vars, gen_vars, enc_vars, px_vars, db_vars>>
    /\ UNCHANGED <<seg_vars, stk_vars, oauth_vars, rf_vars, pw_vars, sse_vars>>

SpecCrop == InitCrop /\ [][NextCrop]_vars

\* C21: with a mask that has a region, the margin is
\* floor(min(box_w, box_h) * (1 - target_fill) / 2) and the returned
\* rectangle lies inside the image, contains the bounding box and has
\* non-zero area; without mask or region the uncropped image is returned.
CropRectangleRule ==
    IsSome(crop_out) =>
        LET in == Val(crop_in)
            out == Val(crop_out)
        IN  IF in.mask = "region" /\ ~in.raises
            THEN /\ out.cropped
                 /\ out.margin = exact_margin(in.box.w, in.box.h)
                 /\ 0 <= out.x1 /\ out.x2 <= in.img_w
                 /\ 0 <= out.y1 /\ out.y2 <= in.img_h
                 /\ out.x1 <= in.box.x /\ in.box.x + in.box.w <= out.x2
                 /\ out.y1 <= in.box.y /\ in.box.y + in.box.h <= out.y2
                 /\ (out.x2 - out.x1) * (out.y2 - out.y1) > 0
            ELSE out = Uncropped(in)

\* C29: on the canvas the mask is aligned with the image: when the image
\* was cropped to a rectangle, every canvas position of the mask is taken
\* from the same source pixel as that position of the image.
MaskAlignedWithImage ==
    (IsSome(crop_canvas) /\ IsSome(Val(crop_canvas).mask)) =>
        \A u \in {0, CanvasPx - 1}, v \in {0, CanvasPx - 1} :
            source_pixel(Val(Val(crop_canvas).mask), u, v) =
                source_pixel(Val(crop_canvas).image, u, v)

\* ------------------------------------------------------------------------
\* Sticker overlay (shipping_variant_generator.py 217-228, 354-410)

\* side of the square tile the badges are pasted on
TileSide == 600

\* the "corner" of the eight entries of _BADGE_CONFIGS, in list order
BadgeCorner ==
    <<"bottom-left", "bottom-right", "top-right", "top-left",
      "bottom-left", "bottom-right", "top-right", "top-left">>

\* random.sample(_BADGE_CONFIGS, k): k different entries, in any order
BadgeSamples(k) ==
    IF k = 1 THEN {<<a>> : a \in DOMAIN BadgeCorner}
    ELSE {c \in [1..2 -> DOMAIN BadgeCorner] : c[1] # c[2]}

\* random.randint(lo, hi), drawn at its ends
BadgeSizes(w, count) ==
    IF count = 1 THEN {(w * 22) \div 100, (w * 28) \div 100}
    ELSE {(w * 15) \div 100, (w * 20) \div 100}

\* badge_img.rotate(angle, expand=True): the square grows to hold the
\* rotated square, by cos + sin of the angle (1.225 at 15 degrees)
rotated_side(side, angle) ==
    IF angle = 0 THEN side ELSE (side * 1225) \div 1000

\* lines 395-406: where the badge is pasted
badge_position(corner, w, h, bw, bh) ==
    LET margin == (w * 3) \div 100
    IN  IF corner = "top-left" THEN <<margin, margin>>
        ELSE IF corner = "top-right" THEN <<w - bw - margin, margin>>
        ELSE IF corner = "bottom-left" THEN <<margin, h - bh - margin>>
        ELSE <<w - bw - margin, h - bh - margin>>

InitSticker ==
    /\ stk_chosen = None
    /\ stk_placed = <<>>
    /\ PipeIdle
    /\ CostIdle
    /\ GenIdle
    /\ EncIdle
    /\ PxIdle
    /\ DbIdle
    /\ ExtIdle("stk")

\* lines 377-378
SampleBadges ==
    /\ stk_chosen = None
    /\ \E num_badges \in {1, 2, 2} :
         \E chosen \in BadgeSamples(Min(num_badges, Len(BadgeCorner))) :
             stk_chosen' = Some(chosen)
    /\ UNCHANGED stk_placed

\* lines 382-408: one pass of the loop over chosen
PasteBadge ==
    /\ IsSome(stk_chosen)
    /\ Len(stk_placed) < Len(Val(stk_chosen))
    /\ LET chosen == Val(stk_chosen)
           cfg == chosen[Len(stk_placed) + 1]
       IN  \E badge_size \in BadgeSizes(TileSide, Len(chosen)), angle \in {0, 15} :
               LET bw == rotated_side(badge_size, angle)
                   bh == rotated_side(badge_size, angle)
                   at == badge_position(BadgeCorner[cfg], TileSide, TileSide, bw, bh)
               IN  stk_placed' = Append(stk_placed,
                       [cfg |-> cfg, px |-> at[1], py |-> at[2],
                        bw |-> bw, bh |-> bh])
    /\ UNCHANGED stk_chosen

NextSticker ==
    /\ \/ SampleBadges
       \/ PasteBadge
    /\ UNCHANGED <<pipe_vars, cost_vars, gen_vars, enc_vars, px_vars, db_vars>>
    /\ UNCHANGED <<seg_vars, crop_vars, oauth_vars, rf_vars, pw_vars, sse_vars>>

SpecSticker == InitSticker /\ [][NextSticker]_vars

\* the corner of the tile a pasted rectangle is anchored in, if any
AnchoredCorner(b) ==
    LET margin == (TileSide * 3) \div 100
        left == b.px = margin
        right == b.px + b.bw = TileSide - margin
        top == b.py = margin
        bottom == b.py + b.bh = TileSide - margin
    IN  IF top /\ left THEN "top-left"
        ELSE IF top /\ right THEN "top-right"
        ELSE IF bottom /\ left THEN "bottom-left"
        ELSE IF bottom /\ right THEN "bottom-right"
        ELSE "none"

Overlapping(a, b) ==
    /\ a.px < b.px + b.bw /\ b.px < a.px + a.bw
    /\ a.py < b.py + b.bh /\ b.py < a.py + a.bh

CoversCentre(b) ==
    /\ b.px <= TileSide \div 2 /\ TileSide \div 2 < b.px + b.bw
    /\ b.py <= TileSide \div 2 /\ TileSide \div 2 < b.py + b.bh

\* C23: every badge is placed in one of the four corners, and two badges
\* are placed in two different corners, so that they do not overlap each
\* other and none covers the centre of the tile.
BadgesInDistinctCorners ==
    /\ \A i \in DOMAIN stk_placed :
          /\ AnchoredCorner(stk_placed[i]) # "none"
          /\ ~CoversCentre(stk_placed[i])
    /\ Len(stk_placed) = 2 =>
          /\ AnchoredCorner(stk_placed[1]) # AnchoredCorner(stk_placed[2])
          /\ ~Overlapping(stk_placed[1], stk_placed[2])

\* ------------------------------------------------------------------------
\* OAuth state store (routers/kinde_auth.py 24-90)

MaxLogins == 3
MaxMinutes == 15

\* timedelta(minutes=10)
StateMaxAgeMin == 10

\* secrets.token_urlsafe(32): a value no earlier login returned
States == 1..MaxLogins

InitOAuth ==
    /\ oauth_states = {}
    /\ oauth_now = 0
    /\ oauth_issued = {}
    /\ oauth_used = {}
    /\ oauth_last = None
    /\ PipeIdle
    /\ CostIdle
    /\ GenIdle
    /\ EncIdle
    /\ PxIdle
    /\ DbIdle
    /\ ExtIdle("oauth")

\* time passes between requests
OAuthTick ==
    /\ oauth_now < MaxMinutes
    /\ oauth_now' = oauth_now + 5
    /\ UNCHANGED <<oauth_states, oauth_issued, oauth_used, oauth_last>>

\* kinde_login, lines 40-54 (the configuration is present)
KindeLogin ==
    /\ Cardinality(oauth_issued) < MaxLogins
    /\ LET state == Cardinality(oauth_issued) + 1
       IN  /\ oauth_states' = {p \in oauth_states : p[1] # state}
                                 \cup {<<state, oauth_now>>}
           /\ oauth_issued' = oauth_issued \cup {<<state, oauth_now>>}
    /\ UNCHANGED <<oauth_now, oauth_used, oauth_last>>

IssuedAt(state) == CHOOSE p \in oauth_issued : p[1] = state

\* kinde_callback, lines 67-90, for a request with code and state. The
\* handler does not await before line 90, so this part runs in one piece;
\* what follows does not touch _oauth_states.
KindeCallback ==
    /\ \E state \in States :
           LET known == \E p \in oauth_states : p[1] = state
               issued == \E p \in oauth_issued : p[1] = state
               about == [state |-> state,
                         issued |-> issued,
                         age |-> IF issued THEN oauth_now - IssuedAt(state)[2] ELSE 0,
                         used |-> state \in oauth_used]
           IN  IF ~known
               THEN /\ oauth_last' = Some([about |-> about, answer |-> "invalid_state"])
                    /\ UNCHANGED <<oauth_states, oauth_used>>
               ELSE /\ oauth_states' = {}
                    /\ oauth_used' = oauth_used \cup {state}
                    /\ oauth_last' = Some([about |-> about, answer |-> "accepted"])
    /\ UNCHANGED <<oauth_now, oauth_issued>>

NextOAuth ==
    /\ \/ OAuthTick
       \/ KindeLogin
       \/ KindeCallback
    /\ UNCHANGED <<pipe_vars, cost_vars, gen_vars, enc_vars, px_vars, db_vars>>
    /\ UNCHANGED <<seg_vars, crop_vars, stk_vars, rf_vars, pw_vars, sse_vars>>

SpecOAuth == InitOAuth /\ [][NextOAuth]_vars

\* C25: a callback is accepted only for a state that /login issued and that
\* was not used, and a state issued less than 10 minutes ago and not yet
\* used is accepted when its callback arrives, whatever other logins and
\* callbacks happened in between.
FreshStateAccepted ==
    IsSome(oauth_last) =>
        LET c == Val(oauth_last)
        IN  /\ c.answer = "accepted" => (c.about.issued /\ ~c.about.used)
            /\ (c.about.issued /\ ~c.about.used /\ c.about.age < StateMaxAgeMin)
                    => c.answer = "accepted"

\* ------------------------------------------------------------------------
\* Refresh of the platform session (services/platform_credential_service.py
\* 59-178, services/meesho_playwright.py 78-106, 157-232)

MaxCallers == 3

Callers == 1..MaxCallers

IdleCall ==
    [pc |-> "idle", session |-> 0, valid_at_acquire |-> FALSE,
     started |-> FALSE, result |-> "pending"]

InitRefresh ==
    /\ rf_lock = 0
    /\ rf_valid = FALSE
    /\ rf_sessions = <<>>
    /\ rf_call = [c \in Callers |-> IdleCall]
    /\ PipeIdle
    /\ CostIdle
    /\ GenIdle
    /\ EncIdle
    /\ PxIdle
    /\ DbIdle
    /\ ExtIdle("rf")

\* ensure_valid_session, lines 142-157: the fast path
EnsureFastPath(c) ==
    /\ rf_call[c].pc = "idle"
    /\ rf_call' = [rf_call EXCEPT ![c] =
            IF rf_valid
            THEN [rf_call[c] EXCEPT !.pc = "done", !.result = "credentials"]
            ELSE [rf_call[c] EXCEPT !.pc = "wait_lock"]]
    /\ UNCHANGED <<rf_lock, rf_valid, rf_sessions>>

\* line 160: async with _refresh_lock
AcquireRefreshLock(c) ==
    /\ rf_call[c].pc = "wait_lock"
    /\ rf_lock = 0
    /\ rf_lock' = c
    /\ rf_call' = [rf_call EXCEPT ![c] =
            [rf_call[c] EXCEPT !.pc = "double_check", !.valid_at_acquire = rf_valid]]
    /\ UNCHANGED <<rf_valid, rf_sessions>>

\* lines 162-172: the double check, then _refresh_via_playwright up to
\* create_session (lines 78-106 of meesho_playwright.py), which registers
\* the session and starts its browser task
DoubleCheck(c) ==
    /\ rf_call[c].pc = "double_check"
    /\ IF rf_valid
       THEN /\ rf_call' = [rf_call EXCEPT ![c] =
                   [rf_call[c] EXCEPT !.pc = "done", !.result = "credentials"]]
            /\ rf_lock' = 0
            /\ UNCHANGED rf_sessions
       ELSE /\ rf_sessions' = Append(rf_sessions, "running")
            /\ rf_call' = [rf_call EXCEPT ![c] =
                   [rf_call[c] EXCEPT !.pc = "polling", !.started = TRUE,
                                      !.session = Len(rf_sessions) + 1]]
            /\ UNCHANGED rf_lock
    /\ UNCHANGED rf_valid

\* _run_browser_session: the subprocess ends and the task records the result
BrowserExit(i) ==
    /\ rf_sessions[i] = "running"
    /\ \E status \in {"completed", "failed"} :
          rf_sessions' = [rf_sessions EXCEPT ![i] = status]
    /\ UNCHANGED <<rf_lock, rf_valid, rf_call>>

\* lines 89-120 of _refresh_via_playwright: a pass of the polling loop that
\* finds the session over, and lines 172-178 of the caller
\*   linked   link_account stored the captured credentials
PollFinished(c) ==
    /\ rf_call[c].pc = "polling"
    /\ rf_sessions[rf_call[c].session] # "running"
    /\ \E linked \in BOOLEAN :
          LET success == rf_sessions[rf_call[c].session] = "completed" /\ linked
          IN  /\ rf_valid' = (rf_valid \/ success)
              /\ rf_call' = [rf_call EXCEPT ![c] =
                     [rf_call[c] EXCEPT !.pc = "done",
                          !.result = IF success THEN "credentials" ELSE "none"]]
    /\ rf_lock' = 0
    /\ UNCHANGED rf_sessions

\* lines 89, 122-125: the 120 passes are used up while the session is still
\* running; the function returns False and leaves the session as it is
PollTimedOut(c) ==
    /\ rf_call[c].pc = "polling"
    /\ rf_sessions[rf_call[c].session] = "running"
    /\ rf_call' = [rf_call EXCEPT ![c] =
            [rf_call[c] EXCEPT !.pc = "done", !.result = "none"]]
    /\ rf_lock' = 0
    /\ UNCHANGED <<rf_valid, rf_sessions>>

NextRefresh ==
    /\ \/ \E c \in Callers : EnsureFastPath(c)
       \/ \E c \in Callers : AcquireRefreshLock(c)
       \/ \E c \in Callers : DoubleCheck(c)
       \/ \E i \in DOMAIN rf_sessions : BrowserExit(i)
       \/ \E c \in Callers : PollFinished(c)
       \/ \E c \in Callers : PollTimedOut(c)
    /\ UNCHANGED <<pipe_vars, cost_vars, gen_vars, enc_vars, px_vars, db_vars>>
    /\ UNCHANGED <<seg_vars, crop_vars, stk_vars, oauth_vars, pw_vars, sse_vars>>

SpecRefresh == InitRefresh /\ [][NextRefresh]_vars

\* C26: at most one Playwright refresh is in progress at any time, and a
\* caller that obtains the lock after another caller's refresh succeeded
\* returns the refreshed credentials without starting a further refresh.
SingleRefresh ==
    /\ Cardinality({i \in DOMAIN rf_sessions : rf_sessions[i] = "running"}) <= 1
    /\ \A c \in Callers :
          (rf_call[c].valid_at_acquire /\ rf_call[c].pc = "done") =>
              (~rf_call[c].started /\ rf_call[c].result = "credentials")

\* ------------------------------------------------------------------------
\* Cancelling a Playwright session (services/meesho_playwright.py 78-232)

MaxSessions == 2

SessionIds == 1..MaxSessions

\* status: "absent" before create_session, else a SessionStatus value
\* task: the browser task, "created" / "sleeping" (in asyncio.sleep(1)) /
\*       "returned"
\* process: the subprocess, "none" / "running" / "signalled" (terminate()
\*       was called, it has not ended yet) / "exited"
\* output: what the temporary file holds, "empty" as NamedTemporaryFile
\*       leaves it, or the runner's "success" / "failure" result
\* cancelled, creds_at_cancel: cancel_session has run for the session, and
\*       whether credentials were attached when it did
NoSession ==
    [status |-> "absent", credentials |-> FALSE, error |-> FALSE,
     task |-> "none", process |-> "none", output |-> "empty",
     cancelled |-> FALSE, creds_at_cancel |-> FALSE]

InitCancel ==
    /\ pw_sessions = [i \in SessionIds |-> NoSession]
    /\ PipeIdle
    /\ CostIdle
    /\ GenIdle
    /\ EncIdle
    /\ PxIdle
    /\ DbIdle
    /\ ExtIdle("pw")

\* create_session, lines 78-106
CreateSession(i) ==
    /\ pw_sessions[i].status = "absent"
    /\ pw_sessions' = [pw_sessions EXCEPT ![i] =
            [pw_sessions[i] EXCEPT !.status = "pending", !.task = "created"]]

\* _run_browser_session from its start to the first asyncio.sleep (lines
\* 167-203). The task was scheduled by create_session before the session id
\* was returned, and it does not await before the sleep, so it runs this far
\* before any request can name the session.
TaskStart(i) ==
    /\ pw_sessions[i].task = "created"
    /\ \E popen_raises \in BOOLEAN :
          pw_sessions' = [pw_sessions EXCEPT ![i] =
              IF popen_raises
              THEN [pw_sessions[i] EXCEPT !.status = "failed", !.error = TRUE,
                                          !.task = "returned"]
              ELSE [pw_sessions[i] EXCEPT !.status = "browser_open",
                                          !.process = "running",
                                          !.task = "sleeping"]]

\* the runner ends by itself, with or without having written its result; a
\* runner that was sent SIGTERM ends without writing one
ProcessExit(i) ==
    /\ pw_sessions[i].process \in {"running", "signalled"}
    /\ \E output \in {"success", "failure", "empty"} :
          /\ pw_sessions[i].process = "signalled" => output = "empty"
          /\ pw_sessions' = [pw_sessions EXCEPT ![i] =
                 [pw_sessions[i] EXCEPT !.process = "exited", !.output = output]]

\* cancel_session, lines 140-154
CancelSession(i) ==
    /\ pw_sessions[i].status # "absent"
    /\ pw_sessions[i].task # "created"
    /\ pw_sessions' = [pw_sessions EXCEPT ![i] =
            [pw_sessions[i] EXCEPT
                !.status = "cancelled",
                !.cancelled = TRUE,
                !.creds_at_cancel = IF pw_sessions[i].cancelled
                                    THEN pw_sessions[i].creds_at_cancel
                                    ELSE pw_sessions[i].credentials,
                !.process = IF pw_sessions[i].process = "running"
                            THEN "signalled" ELSE pw_sessions[i].process]]

\* one pass of the polling loop after the sleep, and what follows the loop
\* (lines 198-232): process.poll() is looked at first, the status only when
\* the process is still alive. json.load of the empty temporary file raises
\* and the handler at lines 231-234 records the failure.
TaskWake(i) ==
    /\ pw_sessions[i].task = "sleeping"
    /\ pw_sessions[i].process = "exited" \/ pw_sessions[i].status = "cancelled"
    /\ pw_sessions' = [pw_sessions EXCEPT ![i] =
            IF pw_sessions[i].process = "exited"
            THEN IF pw_sessions[i].output = "success"
                 THEN [pw_sessions[i] EXCEPT !.credentials = TRUE,
                                             !.status = "completed",
                                             !.task = "returned"]
                 ELSE [pw_sessions[i] EXCEPT !.status = "failed",
                                             !.error = TRUE,
                                             !.task = "returned"]
            ELSE [pw_sessions[i] EXCEPT !.process = "signalled",
                                        !.task = "returned"]]

NextCancel ==
    /\ \E i \in SessionIds :
          \/ CreateSession(i)
          \/ TaskStart(i)
          \/ ProcessExit(i)
          \/ CancelSession(i)
          \/ TaskWake(i)
    /\ UNCHANGED <<pipe_vars, cost_vars, gen_vars, enc_vars, px_vars, db_vars>>
    /\ UNCHANGED <<seg_vars, crop_vars, stk_vars, oauth_vars, rf_vars, sse_vars>>

SpecCancel == InitCancel /\ [][NextCancel]_vars

\* C30: once cancel_session has set a session's status to CANCELLED, the
\* status stays CANCELLED under every interleaving with the browser task,
\* and no credentials are attached to the session afterwards.
CancelIsTerminal ==
    \A i \in SessionIds :
        pw_sessions[i].cancelled =>
            /\ pw_sessions[i].status = "cancelled"
            /\ pw_sessions[i].credentials = pw_sessions[i].creds_at_cancel

\* ------------------------------------------------------------------------
\* The optimize-stream response (routers/images.py 598-840)

\* total_variants = 30
TotalVariants == 30

\* cols, rows = 2, 2 of generate_all_shipping_variants
GridCols == 2
GridRows == 2

\* variants the generator goes through for one grid
GridVariants == GridCols * GridRows * Len(VariantTransforms)

Event(event, stage, index, recoverable) ==
    [event |-> event, stage |-> stage, index |-> index, recoverable |-> recoverable]

StatusEvent(stage) == Event("status", stage, 0, FALSE)
VariantEvent(index) == Event("variant", "", index, FALSE)
ErrorEvent(recoverable) == Event("error", "", 0, recoverable)
CompleteEvent == Event("complete", "", 0, FALSE)

IsTerminal(e) == e.event = "complete" \/ (e.event = "error" /\ ~e.recoverable)

\* the client's view of the stream: the first three events, whether every
\* later non-terminal event was a variant or a recoverable error, whether
\* the variant indexes were strictly increasing, the terminal events, and
\* whether anything was sent after a terminal event
NoEvents ==
    [head |-> <<>>, body_ok |-> TRUE, monotone |-> TRUE, last_index |-> -1,
     terminals |-> 0, terminal |-> "none", after_terminal |-> FALSE]

\* yield e
Emit(obs, e) ==
    [head |-> IF Len(obs.head) < 3 THEN Append(obs.head, e) ELSE obs.head,
     body_ok |-> obs.body_ok /\
                 ((Len(obs.head) >= 3 /\ ~IsTerminal(e)) =>
                      (e.event = "variant" \/ e.event = "error")),
     monotone |-> obs.monotone /\ (e.event = "variant" => e.index > obs.last_index),
     last_index |-> IF e.event = "variant" THEN e.index ELSE obs.last_index,
     terminals |-> obs.terminals + (IF IsTerminal(e) THEN 1 ELSE 0),
     terminal |-> IF IsTerminal(e) THEN e.event ELSE obs.terminal,
     after_terminal |-> obs.after_terminal \/ obs.terminals > 0]

\* a stream that stops at the disconnect
loop_exit_returning(disconnected) == IF disconnected THEN "closed" ELSE "save"

\* where control goes when the for loop is left: by break and at the end of
\* the generator alike to Stage 4
loop_exit(disconnected) == "save"

\* info.global_index of the variant at position idx of the generator
global_index(idx) ==
    LET tile_index == idx \div Len(VariantTransforms)
        variant_index == idx % Len(VariantTransforms)
    IN  tile_index * 5 + variant_index

InitStream ==
    /\ sse_pc = "start"
    /\ sse_minio \in BOOLEAN
    /\ sse_idx = 0
    /\ sse_counts = [successful |-> 0, failed |-> 0]
    /\ sse_seen = [disconnected |-> FALSE, save_raised |-> FALSE, encoded |-> 0,
                   attempted |-> 0]
    /\ sse_obs = NoEvents
    /\ sse_complete = None
    /\ sse_record = None
    /\ PipeIdle
    /\ CostIdle
    /\ GenIdle
    /\ EncIdle
    /\ PxIdle
    /\ DbIdle
    /\ ExtIdle("sse")

\* lines 613-620
StreamStart ==
    /\ sse_pc = "start"
    /\ sse_obs' = Emit(sse_obs, StatusEvent("generating"))
    /\ sse_pc' = "optimize"
    /\ UNCHANGED <<sse_minio, sse_idx, sse_counts, sse_seen, sse_complete, sse_record>>

\* lines 622-687: the optimizer runs
\*   outcome   it raises, it reports metrics["error"], or it returns a grid
StreamOptimize ==
    /\ sse_pc = "optimize"
    /\ \E outcome \in {"raises", "metrics_error", "grid"} :
          IF outcome = "grid"
          THEN /\ sse_obs' = Emit(sse_obs, StatusEvent("processing"))
               /\ sse_pc' = "upload_grid"
          ELSE /\ sse_obs' = Emit(sse_obs, ErrorEvent(FALSE))
               /\ sse_pc' = "closed"
    /\ UNCHANGED <<sse_minio, sse_idx, sse_counts, sse_seen, sse_complete, sse_record>>

\* lines 689-720: the uploads of grid and original catch their own failure
StreamUploadGrid ==
    /\ sse_pc = "upload_grid"
    /\ sse_obs' = Emit(sse_obs, StatusEvent("uploading"))
    /\ sse_pc' = "loop"
    /\ UNCHANGED <<sse_minio, sse_idx, sse_counts, sse_seen, sse_complete, sse_record>>

\* lines 725-777: the generator is asked for its next variant, and the loop
\* body runs on what it yields
\*   gen           the generator "yields" the variant, "skips" it (its
\*                 transform failed), or "raises" (it cannot be continued)
\*   disconnected  request.is_disconnected()
\*   body_raises   decoding, encoding or upload of the variant raises
StreamVariant ==
    /\ sse_pc = "loop"
    /\ sse_idx < GridVariants
    /\ \E gen \in {"yields", "skips", "raises"}, disconnected \in BOOLEAN,
          body_raises \in BOOLEAN :
          LET seen == [sse_seen EXCEPT !.attempted = @ + 1]
          IN  IF gen = "raises"
              THEN /\ sse_obs' = Emit(sse_obs, ErrorEvent(FALSE))
                   /\ sse_pc' = "closed"
                   /\ sse_seen' = seen
                   /\ UNCHANGED <<sse_idx, sse_counts>>
              ELSE IF gen = "skips"
              THEN /\ sse_idx' = sse_idx + 1
                   /\ sse_seen' = seen
                   /\ UNCHANGED <<sse_pc, sse_counts, sse_obs>>
              ELSE IF disconnected
              THEN /\ sse_pc' = loop_exit(TRUE)
                   /\ sse_seen' = [seen EXCEPT !.disconnected = TRUE]
                   /\ UNCHANGED <<sse_idx, sse_counts, sse_obs>>
              ELSE IF body_raises
              THEN /\ sse_counts' = [sse_counts EXCEPT !.failed = @ + 1]
                   /\ sse_obs' = Emit(sse_obs, ErrorEvent(TRUE))
                   /\ sse_idx' = sse_idx + 1
                   /\ sse_seen' = seen
                   /\ UNCHANGED sse_pc
              ELSE /\ sse_idx' = sse_idx + 1
                   /\ sse_seen' = [seen EXCEPT !.encoded = @ + 1]
                   /\ IF sse_minio
                      THEN /\ sse_counts' = [sse_counts EXCEPT !.successful = @ + 1]
                           /\ sse_obs' = Emit(sse_obs, VariantEvent(global_index(sse_idx)))
                      ELSE UNCHANGED <<sse_counts, sse_obs>>
                   /\ UNCHANGED sse_pc
    /\ UNCHANGED <<sse_minio, sse_complete, sse_record>>

\* line 725: the generator is exhausted
StreamLoopEnd ==
    /\ sse_pc = "loop"
    /\ sse_idx = GridVariants
    /\ sse_pc' = loop_exit(FALSE)
    /\ UNCHANGED <<sse_minio, sse_idx, sse_counts, sse_seen, sse_obs, sse_complete,
                   sse_record>>

\* lines 779-830, and lines 832-840 when the save raises
StreamSave ==
    /\ sse_pc = "save"
    /\ \E commit_raises \in BOOLEAN :
          IF commit_raises
          THEN /\ sse_obs' = Emit(sse_obs, ErrorEvent(FALSE))
               /\ sse_seen' = [sse_seen EXCEPT !.save_raised = TRUE]
               /\ UNCHANGED <<sse_complete, sse_record>>
          ELSE /\ sse_record' = Some(
                      [variant_count |-> sse_counts.successful,
                       variant_failures |-> sse_counts.failed,
                       status |-> IF sse_counts.successful > 0
                                  THEN "success" ELSE "error",
                       error_message |-> IF sse_counts.successful > 0
                                         THEN "" ELSE "All variants failed"])
               /\ sse_complete' = Some(
                      [total |-> TotalVariants,
                       successful |-> sse_counts.successful,
                       failed |-> sse_counts.failed])
               /\ sse_obs' = Emit(sse_obs, CompleteEvent)
               /\ UNCHANGED sse_seen
    /\ sse_pc' = "closed"
    /\ UNCHANGED <<sse_minio, sse_idx, sse_counts>>

NextStream ==
    /\ \/ StreamStart
       \/ StreamOptimize
       \/ StreamUploadGrid
       \/ StreamVariant
       \/ StreamLoopEnd
       \/ StreamSave
    /\ UNCHANGED <<pipe_vars, cost_vars, gen_vars, enc_vars, px_vars, db_vars>>
    /\ UNCHANGED <<seg_vars, crop_vars, stk_vars, oauth_vars, rf_vars, pw_vars>>

SpecStream == InitStream /\ [][NextStream]_vars

HeadStages == <<"generating", "processing", "uploading">>

\* the first three events are the three status events in order, cut short
\* only by a terminal event
HeadInOrder ==
    \A k \in DOMAIN sse_obs.head :
        \/ sse_obs.head[k] = StatusEvent(HeadStages[k])
        \/ IsTerminal(sse_obs.head[k]) /\ k = Len(sse_obs.head)

StreamShape ==
    /\ HeadInOrder
    /\ sse_obs.body_ok
    /\ sse_obs.monotone
    /\ ~sse_obs.after_terminal
    /\ sse_obs.terminals <= 1
    /\ sse_pc = "closed" <=> sse_obs.terminals = 1

\* C27 as stated: the events come in the order generating, processing,
\* uploading, then variant and recoverable-error events, then exactly one
\* terminal event (complete or a non-recoverable error) and nothing after
\* it; variant indexes increase strictly; and a stream whose client
\* disconnected during variant generation ends with complete.
StreamOrderAsStated ==
    /\ StreamShape
    /\ (sse_pc = "closed" /\ sse_seen.disconnected) => sse_obs.terminal = "complete"

\* C27 amended: as above, but a stream whose client disconnected during
\* variant generation ends with complete only if the final database save
\* succeeds; when the save raises it ends with the non-recoverable error.
StreamOrder ==
    /\ StreamShape
    /\ (sse_pc = "closed" /\ sse_seen.disconnected) =>
           sse_obs.terminal = (IF sse_seen.save_raised THEN "error" ELSE "complete")

\* a stream with a variant event was left by a disconnect and closed with
\* complete
StreamOrderWitness ==
    /\ sse_pc = "closed"
    /\ sse_seen.disconnected
    /\ sse_obs.last_index >= 5
    /\ sse_counts.failed > 0
    /\ sse_obs.terminal = "complete"

\* C28: in every complete event and in the record persisted with it, total
\* is the number of variants the generator goes through for the grid and
\* successful + failed is the number attempted, with storage enabled or
\* disabled; the persisted status is "error" with "All variants failed"
\* only if no variant was produced successfully.
CompleteCountsConsistent ==
    IsSome(sse_complete) =>
        /\ Val(sse_complete).total = GridVariants
        /\ Val(sse_complete).successful + Val(sse_complete).failed = sse_seen.attempted
        /\ Val(sse_record).variant_count + Val(sse_record).variant_failures
               = sse_seen.attempted
        /\ Val(sse_record).status = "error" =>
               (Val(sse_record).error_message = "All variants failed"
                /\ sse_seen.encoded = 0)

====
